---------------------------- MODULE Spec2Model ----------------------------
(***************************************************************************)
(* Verification model of the per-track media reception core:              *)
(*   - utils.WrapAround      (src/pkg/sfu/forwardstats.go, package utils)  *)
(*   - buffer.RTPStats       (src/unnamed/part_000, package buffer)        *)
(*   - sfu.sequencer         (src/pkg/sfu/forwardstats.go, package sfu)    *)
(*   - utils.OpsQueue        (src/pkg/utils/opsqueue.go, package utils)    *)
(*   - sfu.StreamTrackerManager (src/pkg/utils/opsqueue.go, package sfu)   *)
(* Every component is a record-valued variable; the methods are operators  *)
(* from a record (and the call's arguments) to the record after the call   *)
(* and the call's results.  Each component has its own specification over  *)
(* the shared initial state.                                               *)
(***************************************************************************)
EXTENDS Integers, Sequences, FiniteSets, TLC

VARIABLES
    wa,        \* a stand-alone WrapAround[uint16, uint64]
    waLast,    \* the last Update on wa: argument, state before, result
    waCalls,   \* number of Update calls made on wa
    rs,        \* the RTPStats engine
    rsLast,    \* the last call on rs: operation, argument, state before, results
    rsSeen,    \* packets (stream indexes) that Update has recorded so far
    rsCalls,   \* number of Update calls made on rs
    now,       \* time.Now(), in milliseconds; 0 is the zero time.Time
    sq,        \* the sequencer of a down track
    sqLast,    \* the last call on sq: operation, argument, state before, result
    sqNow,     \* milliseconds since the sequencer's startTime
    sqPushes,  \* number of push and pushPadding calls made on sq
    sqGets,    \* number of getPacketsMeta calls made on sq
    sqReturned, \* per target sequence number, the metas getPacketsMeta returned
    sqRefused, \* target sequence numbers stored as nil and not pushed since
    sqPushed,  \* target sequence numbers of the pushes that were stored, in order
    oq,        \* the OpsQueue
    oqProc,    \* the goroutines running OpsQueue.process: position and closure
    oqSpawn,   \* Start calls that have unlocked and not yet run "go oq.process()"
    oqLog,     \* history of oq: calls made, closures accepted, begun, finished
    st,        \* the StreamTrackerManager
    stRep,     \* the goroutine of bitrateReporter: position, al and brs
    stHooked,  \* layers whose tracker was given the OnStatusChanged callback
    stLast,    \* the last call on st: operation, arguments, state before, results
    stCalls,   \* numbers of calls made on st and of ticks of the reporter
    fs,        \* the ForwardStats
    fsProc,    \* the goroutines calling ForwardStats.Update: position and locals
    fsLog,     \* history of fs: calls made, position of the report goroutine
    avTrk,     \* the goroutines of the trackers' status callbacks, per layer
    avLog,     \* the notifications delivered to the listener of st, in order
    dl,        \* the goroutine calling RTPStats.DeltaInfo: position and locals
    dlLog      \* the ids NewSnapshotId returned and the deltas DeltaInfo returned

waVars == <<wa, waLast, waCalls>>

rsVars == <<rs, rsLast, rsSeen, rsCalls, now>>

sqVars == <<sq, sqLast, sqNow, sqPushes, sqGets, sqReturned, sqRefused,
           sqPushed>>

oqVars == <<oq, oqProc, oqSpawn, oqLog>>

stVars == <<st, stRep, stHooked, stLast, stCalls>>

fsVars == <<fs, fsProc, fsLog>>

avVars == <<avTrk, avLog>>

dlVars == <<dl, dlLog>>

vars == <<wa, waLast, waCalls, rs, rsLast, rsSeen, rsCalls, now,
          sq, sqLast, sqNow, sqPushes, sqGets, sqReturned, sqRefused, sqPushed,
          oq, oqProc, oqSpawn, oqLog, st, stRep, stHooked, stLast, stCalls,
          fs, fsProc, fsLog, avTrk, avLog, dl, dlLog>>

----------------------------------------------------------------------------
(* Helpers: unsigned modular arithmetic of width R (R = 2^bits).           *)

SubMod(a, b, R) == (a - b) % R

MaxOf(a, b) == IF a >= b THEN a ELSE b

MinOf(a, b) == IF a <= b THEN a ELSE b

----------------------------------------------------------------------------
(* utils.WrapAround[T, ET]                                                 *)
(* An extended value (type ET = uint64) is an integer here.  The value     *)
(* ET(val) - 1 of the first Update is val - 1, so it is -1 (standing for   *)
(* 2^64 - 1) when val = 0: differences of extended values are those of the *)
(* source.                                                                 *)

\* fullRange of WrapAround[uint16, _]: 1 << 16
U16Range == 65536

NewWrapAround(fullRange) ==
    [fullRange |-> fullRange, initialized |-> FALSE,
     start |-> 0, highest |-> 0, cycles |-> 0]

GetExtendedStart(w) == w.start

GetExtendedHighest(w) == w.cycles * w.fullRange + w.highest

HalfRange(w) == w.fullRange \div 2

isWrapBack(w, val) == w.highest < HalfRange(w) /\ val >= HalfRange(w)

\* maybeAdjustStart without a restart: only the wrap-back correction of the
\* local cycles (both the totalNum > fullRange/2 branch and the else branch)
AdjustNoRestart(w, val) ==
    LET cycles == IF isWrapBack(w, val) THEN w.cycles - 1 ELSE w.cycles
    IN [w |-> w, isRestart |-> FALSE, preExtendedStart |-> 0,
        extendedVal |-> cycles * w.fullRange + val]

\* mutant of AdjustRestart: the wrap is not recorded in cycles
AdjustRestartKeepsCycles(w, val) ==
    [w |-> [w EXCEPT !.start = val], isRestart |-> TRUE,
     preExtendedStart |-> GetExtendedStart(w),
     extendedVal |-> w.cycles * w.fullRange + val]

\* mutant of AdjustRestart: the start is left where it was
AdjustRestartKeepsStart(w, val) ==
    LET wrap == val > w.highest
        w1   == [w EXCEPT !.cycles = IF wrap THEN 1 ELSE @]
        cycles == IF wrap THEN 0 ELSE w.cycles
    IN [w |-> w1, isRestart |-> TRUE, preExtendedStart |-> GetExtendedStart(w),
        extendedVal |-> cycles * w.fullRange + val]

\* maybeAdjustStart, branch "out-of-order with existing start => a new start"
AdjustRestart(w, val) ==
    LET wrap == val > w.highest
        w1   == [w EXCEPT !.cycles = IF wrap THEN 1 ELSE @, !.start = val]
        cycles == IF wrap THEN 0 ELSE w.cycles
    IN [w |-> w1, isRestart |-> TRUE, preExtendedStart |-> GetExtendedStart(w),
        extendedVal |-> cycles * w.fullRange + val]

maybeAdjustStart(w, val) ==
    LET totalNum == GetExtendedHighest(w) - GetExtendedStart(w) + 1
    IN IF totalNum > HalfRange(w)
         THEN AdjustNoRestart(w, val)
         ELSE IF SubMod(val, w.start, w.fullRange) > HalfRange(w)
                THEN AdjustRestart(w, val)
                ELSE AdjustNoRestart(w, val)

\* mutant of UpdateInOrder: a wrap of the value does not count a cycle
UpdateInOrderNoCycle(w, val) ==
    LET w1 == [w EXCEPT !.highest = val]
    IN [w |-> w1, IsRestart |-> FALSE, PreExtendedStart |-> 0,
        PreExtendedHighest |-> GetExtendedHighest(w),
        ExtendedVal |-> w1.cycles * w.fullRange + val]

\* mutant of UpdateInOrder: the value is extended by the cycles before it
UpdateInOrderOldCycles(w, val) ==
    LET w1 == [w EXCEPT !.cycles = IF val < w.highest THEN @ + 1 ELSE @,
                        !.highest = val]
    IN [w |-> w1, IsRestart |-> FALSE, PreExtendedStart |-> 0,
        PreExtendedHighest |-> GetExtendedHighest(w),
        ExtendedVal |-> w.cycles * w.fullRange + val]

\* Update, in-order branch (0 < gap <= fullRange/2)
UpdateInOrder(w, val) ==
    LET w1 == [w EXCEPT !.cycles = IF val < w.highest THEN @ + 1 ELSE @,
                        !.highest = val]
    IN [w |-> w1, IsRestart |-> FALSE, PreExtendedStart |-> 0,
        PreExtendedHighest |-> GetExtendedHighest(w),
        ExtendedVal |-> w1.cycles * w.fullRange + val]

IsOutOfOrderGap(w, gap) == gap = 0 \/ gap > HalfRange(w)

WrapAroundUpdate(w, val) ==
    IF ~w.initialized
      THEN [w |-> [w EXCEPT !.start = val, !.highest = val, !.initialized = TRUE],
            IsRestart |-> FALSE, PreExtendedStart |-> 0,
            PreExtendedHighest |-> val - 1, ExtendedVal |-> val]
      ELSE LET gap == SubMod(val, w.highest, w.fullRange)
           IN IF IsOutOfOrderGap(w, gap)
                THEN LET a == maybeAdjustStart(w, val)
                     IN [w |-> a.w, IsRestart |-> a.isRestart,
                         PreExtendedStart |-> a.preExtendedStart,
                         PreExtendedHighest |-> GetExtendedHighest(w),
                         ExtendedVal |-> a.extendedVal]
                ELSE UpdateInOrder(w, val)

\* ResetHighest(val T): only the highest field
ResetHighest(w, val) == [w EXCEPT !.highest = val % w.fullRange]

\* RollbackRestart(prev): restores start (the method's body is not in src/)
RollbackRestart(w, prev) == [w EXCEPT !.start = prev % w.fullRange]

----------------------------------------------------------------------------
(* buffer.RTPStats                                                         *)
(* Times are milliseconds (0 is the zero time.Time).  The 32-bit RTP       *)
(* timestamp is carried in TSRange = 2^28 values, since an extended 32-bit *)
(* value does not fit the model checker's integers; the sequence number    *)
(* keeps its 16 bits.  The float64 jitter is kept as an integer.           *)

SnInfoSize == 8192

GapHistogramNumBins == 101

FirstSnapshotId == 1

\* params.ClockRate, Hz
ClockRate == 90000

\* rtph.MarshalSize() of a header without CSRCs and extensions
HdrSize == 12

\* fullRange of the timestamp extender (see above)
TSRange == 268435456

ZeroSnInfo ==
    [hdrSize |-> 0, pktSize |-> 0, isPaddingOnly |-> FALSE, marker |-> FALSE,
     isOutOfOrder |-> FALSE]

ZeroFlowState ==
    [IsNotHandled |-> FALSE, HasLoss |-> FALSE, LossStartInclusive |-> 0,
     LossEndExclusive |-> 0, IsDuplicate |-> FALSE, IsOutOfOrder |-> FALSE,
     ExtSequenceNumber |-> 0, ExtTimestamp |-> 0]

\* the result of an Update of an extender, without the extender
ResultOf(u) ==
    [IsRestart |-> u.IsRestart, PreExtendedStart |-> u.PreExtendedStart,
     PreExtendedHighest |-> u.PreExtendedHighest, ExtendedVal |-> u.ExtendedVal]

ZeroResult ==
    [IsRestart |-> FALSE, PreExtendedStart |-> 0, PreExtendedHighest |-> 0,
     ExtendedVal |-> 0]

\* snInfos is the function from the slots that are not all-zero to their
\* contents; every other slot of the [SnInfoSize]SnInfo array is ZeroSnInfo.
SnInfoAt(r, ptr) == IF ptr \in DOMAIN r.snInfos THEN r.snInfos[ptr] ELSE ZeroSnInfo

PutSnInfo(infos, ptr, info) ==
    IF info = ZeroSnInfo
      THEN [p \in DOMAIN infos \ {ptr} |-> infos[p]]
      ELSE [p \in DOMAIN infos \cup {ptr} |-> IF p = ptr THEN info ELSE infos[p]]

NewRTPStats(isReceiverReportDriven) ==
    [IsReceiverReportDriven |-> isReceiverReportDriven,
     initialized |-> FALSE, resyncOnNextPacket |-> FALSE,
     shouldDiscountPaddingOnlyDrops |-> FALSE,
     startTime |-> 0, endTime |-> 0,
     sequenceNumber |-> NewWrapAround(U16Range),
     extHighestSNOverridden |-> 0, lastRRTime |-> 0,
     lastRR |-> [LastSequenceNumber |-> 0, TotalLost |-> 0, Jitter |-> 0],
     timestamp |-> NewWrapAround(TSRange),
     firstTime |-> 0, highestTime |-> 0,
     lastTransit |-> 0, lastJitterRTP |-> 0,
     bytes |-> 0, headerBytes |-> 0, bytesDuplicate |-> 0,
     headerBytesDuplicate |-> 0, bytesPadding |-> 0, headerBytesPadding |-> 0,
     packetsDuplicate |-> 0, packetsPadding |-> 0, packetsOutOfOrder |-> 0,
     packetsLost |-> 0, packetsLostOverridden |-> 0, frames |-> 0,
     jitter |-> 0, maxJitter |-> 0, jitterOverridden |-> 0,
     maxJitterOverridden |-> 0,
     snInfos |-> <<>>, snInfoWritePtr |-> 0,
     gapHistogram |-> <<>>,
     nacks |-> 0, plis |-> 0, lastPli |-> 0, firs |-> 0, lastFir |-> 0,
     keyFrames |-> 0, lastKeyFrame |-> 0, rtt |-> 0, maxRtt |-> 0,
     srFirst |-> <<>>, srNewest |-> <<>>,
     nextSnapshotId |-> FirstSnapshotId, snapshots |-> <<>>]

NewSnapshot(startTime, extStartSN) ==
    [startTime |-> startTime, extStartSN |-> extStartSN,
     extStartSNOverridden |-> extStartSN, packetsDuplicate |-> 0,
     bytesDuplicate |-> 0, headerBytesDuplicate |-> 0,
     packetsLostOverridden |-> 0, nacks |-> 0, plis |-> 0, firs |-> 0,
     maxRtt |-> 0, maxJitter |-> 0, maxJitterOverridden |-> 0]

getPacketsExpected(r) ==
    GetExtendedHighest(r.sequenceNumber) - GetExtendedStart(r.sequenceNumber) + 1

\* 0 stands for "should not happen"
getTotalPacketsPrimary(r) ==
    LET packetsExpected == getPacketsExpected(r)
        packetsSeen == packetsExpected - r.packetsLost
    IN IF r.packetsLost > packetsExpected THEN 0
       ELSE IF r.packetsPadding > packetsSeen THEN 0
       ELSE packetsSeen - r.packetsPadding

\* -1: in-order (not expected, maybe too new) or too old
getSnInfoOutOfOrderPtr(r, esn, ehsn) ==
    IF esn - ehsn > 0 THEN -1
    ELSE IF ehsn - esn >= SnInfoSize THEN -1
    ELSE (r.snInfoWritePtr - (ehsn - esn) - 1) % SnInfoSize

\* mutant of setSnInfo: an out-of-order packet is written at the write pointer
setSnInfoAtWritePtr(r, esn, ehsn, pktSize, hdrSize, payloadSize, marker, isOutOfOrder) ==
    [r EXCEPT !.snInfos = PutSnInfo(@, r.snInfoWritePtr,
                   [hdrSize |-> hdrSize, pktSize |-> pktSize,
                    isPaddingOnly |-> payloadSize = 0, marker |-> marker,
                    isOutOfOrder |-> isOutOfOrder]),
              !.snInfoWritePtr = IF esn - ehsn < 0 THEN @ ELSE (@ + 1) % SnInfoSize]

setSnInfo(r, esn, ehsn, pktSize, hdrSize, payloadSize, marker, isOutOfOrder) ==
    LET ooo == esn - ehsn < 0
        writePtr == IF ooo THEN getSnInfoOutOfOrderPtr(r, esn, ehsn)
                    ELSE r.snInfoWritePtr
        info == [hdrSize |-> hdrSize, pktSize |-> pktSize,
                 isPaddingOnly |-> payloadSize = 0, marker |-> marker,
                 isOutOfOrder |-> isOutOfOrder]
    IN IF writePtr < 0 THEN r
       ELSE [r EXCEPT !.snInfos = PutSnInfo(@, writePtr, info),
                      !.snInfoWritePtr = IF ooo THEN @ ELSE (@ + 1) % SnInfoSize]

\* the loop clears the n = extEndExclusive - extStartInclusive slots from the
\* write pointer on (all of them when n >= SnInfoSize) and leaves their
\* isOutOfOrder as it is
clearSnInfos(r, extStartInclusive, extEndExclusive) ==
    LET n == extEndExclusive - extStartInclusive
        cleared(p) == n >= SnInfoSize \/ (p - r.snInfoWritePtr) % SnInfoSize < n
        keep == {p \in DOMAIN r.snInfos : ~cleared(p) \/ r.snInfos[p].isOutOfOrder}
    IN [r EXCEPT !.snInfos = [p \in keep |->
                                IF cleared(p)
                                  THEN [ZeroSnInfo EXCEPT !.isOutOfOrder = TRUE]
                                  ELSE r.snInfos[p]],
                 !.snInfoWritePtr = (@ + n) % SnInfoSize]

isSnInfoLost(r, esn, ehsn) ==
    LET readPtr == getSnInfoOutOfOrderPtr(r, esn, ehsn)
    IN IF readPtr < 0 THEN FALSE ELSE SnInfoAt(r, readPtr).pktSize = 0

\* The walk over [extStartInclusive, extEndExclusive) is computed from the
\* slots that are not all-zero: the extended sequence number of slot p is
\* ehsn - ((snInfoWritePtr - 1 - p) mod SnInfoSize), a position of the walk
\* is found when it is within SnInfoSize of ehsn and not above it, and a
\* found position whose slot has pktSize = 0 is lost.
getIntervalStats(r, extStartInclusive, extEndExclusive) ==
    LET ehsn == GetExtendedHighest(r.sequenceNumber)
        lo == MaxOf(extStartInclusive, ehsn - SnInfoSize + 1)
        hi == MinOf(extEndExclusive - 1, ehsn)
        found == IF hi >= lo THEN hi - lo + 1 ELSE 0
        esnOf(p) == ehsn - ((r.snInfoWritePtr - 1 - p) % SnInfoSize)
        inWalk == {p \in DOMAIN r.snInfos :
                      /\ esnOf(p) >= lo /\ esnOf(p) <= hi
                      /\ r.snInfos[p].pktSize # 0}
        padding == {p \in inWalk : r.snInfos[p].isPaddingOnly}
        normal == inWalk \ padding
    IN [packets |-> Cardinality(normal),
        packetsPadding |-> Cardinality(padding),
        packetsLost |-> found - Cardinality(inWalk),
        packetsOutOfOrder |-> Cardinality({p \in normal : r.snInfos[p].isOutOfOrder}),
        frames |-> Cardinality({p \in inWalk : r.snInfos[p].marker}),
        packetsNotFound |-> (extEndExclusive - extStartInclusive) - found]

\* updateGapHistogram that takes the number of missing packets as the index
updateGapHistogramByMissing(r, gap) ==
    IF gap < 2 THEN r
    ELSE LET missing == gap - 1
             bin == IF missing > GapHistogramNumBins
                      THEN GapHistogramNumBins - 1 ELSE missing
             old == IF bin \in DOMAIN r.gapHistogram THEN r.gapHistogram[bin] ELSE 0
         IN [r EXCEPT !.gapHistogram =
                [b \in DOMAIN @ \cup {bin} |-> IF b = bin THEN old + 1 ELSE @[b]]]

\* updateGapHistogram(gap): r.gapHistogram is indexed from 0
updateGapHistogram(r, gap) ==
    IF gap < 2 THEN r
    ELSE LET missing == gap - 1
             bin == IF missing > GapHistogramNumBins
                      THEN GapHistogramNumBins - 1 ELSE missing - 1
             old == IF bin \in DOMAIN r.gapHistogram THEN r.gapHistogram[bin] ELSE 0
         IN [r EXCEPT !.gapHistogram =
                [b \in DOMAIN @ \cup {bin} |-> IF b = bin THEN old + 1 ELSE @[b]]]

\* int32(transit - lastTransit), in the width of the timestamp
SignedDiff(a, b) ==
    LET d == SubMod(a, b, TSRange)
    IN IF d >= TSRange \div 2 THEN d - TSRange ELSE d

updateJitter(r, pkt, packetTime) ==
    IF r.lastJitterRTP = pkt.ts THEN r
    ELSE LET timeSinceFirst == packetTime - r.firstTime
             packetTimeRTP == (timeSinceFirst * (ClockRate \div 1000)) % TSRange
             transit == SubMod(packetTimeRTP, pkt.ts, TSRange)
             d0 == SignedDiff(transit, r.lastTransit)
             d == IF d0 < 0 THEN -d0 ELSE d0
             jitter == IF r.lastTransit # 0
                         THEN r.jitter + ((d - r.jitter) \div 16) ELSE r.jitter
         IN [r EXCEPT !.jitter = jitter,
                      !.maxJitter = IF r.lastTransit # 0 THEN MaxOf(@, jitter) ELSE @,
                      !.snapshots = IF r.lastTransit # 0
                                      THEN [id \in DOMAIN @ |->
                                              [@[id] EXCEPT !.maxJitter = MaxOf(@, jitter)]]
                                      ELSE @,
                      !.lastTransit = transit,
                      !.lastJitterRTP = pkt.ts]

\* Update, "if r.resyncOnNextPacket": with ResetHighest(val T) only the low
\* bits of the values computed from the newest sender report reach the
\* extenders, so that the sender report does not enter the result
Resync(r, pkt, packetTime) ==
    IF ~r.resyncOnNextPacket THEN r
    ELSE IF ~r.initialized THEN [r EXCEPT !.resyncOnNextPacket = FALSE]
    ELSE [r EXCEPT !.resyncOnNextPacket = FALSE,
                   !.sequenceNumber = ResetHighest(@, pkt.sn - 1),
                   !.timestamp = ResetHighest(@, pkt.ts),
                   !.highestTime = packetTime]

\* Update, "if !r.initialized" with a payload: the stream starts
StartStream(r, packetTime) ==
    [r EXCEPT !.initialized = TRUE,
              !.startTime = packetTime,
              !.firstTime = packetTime,
              !.highestTime = packetTime]

\* Update, "initialize snapshots if any", after the extenders are seeded
InitSnapshots(r) ==
    [r EXCEPT !.snapshots =
        [id \in FirstSnapshotId .. (r.nextSnapshotId - 1) |->
            NewSnapshot(r.startTime, GetExtendedStart(r.sequenceNumber))]]

\* Update, "if !flowState.IsDuplicate": the packet is counted
CountPacket(r, pkt, packetTime, pktSize) ==
    IF pkt.payloadSize = 0
      THEN [r EXCEPT !.packetsPadding = @ + 1,
                     !.bytesPadding = @ + pktSize,
                     !.headerBytesPadding = @ + HdrSize]
      ELSE updateJitter([r EXCEPT !.bytes = @ + pktSize,
                                  !.headerBytes = @ + HdrSize,
                                  !.frames = IF pkt.marker THEN @ + 1 ELSE @],
                        pkt, packetTime)

\* Update, "if resSN.IsRestart" of the out-of-order branch
AdjustStartSN(r, resSN) ==
    [r EXCEPT !.packetsLost = @ + (resSN.PreExtendedStart - resSN.ExtendedVal),
              !.snapshots =
                  [id \in DOMAIN @ |->
                     IF @[id].extStartSN = resSN.PreExtendedStart
                       THEN [@[id] EXCEPT !.extStartSN =
                                GetExtendedStart(r.sequenceNumber)]
                       ELSE @[id]]]

\* mutant of UpdateDuplicateOrOutOfOrder: a padding-only packet returns early
\* only when both extenders proposed a restart
UpdateDuplicateOrOutOfOrderBothRestart(r, pkt, resSN, resTS, packetTime, pktSize) ==
    LET padding == pkt.payloadSize = 0
        r1 == IF padding /\ resTS.IsRestart
                THEN [r EXCEPT !.timestamp = RollbackRestart(@, resTS.PreExtendedStart)]
                ELSE r
    IN IF padding /\ resSN.IsRestart /\ resTS.IsRestart
         THEN [r |-> [r1 EXCEPT !.sequenceNumber =
                                   RollbackRestart(@, resSN.PreExtendedStart)],
               recorded |-> FALSE,
               flowState |-> ZeroFlowState]
         ELSE LET r2 == [r1 EXCEPT !.packetsOutOfOrder =
                                      IF resSN.ExtendedVal # resSN.PreExtendedHighest
                                        THEN @ + 1 ELSE @]
                  r3 == IF resSN.IsRestart THEN AdjustStartSN(r2, resSN) ELSE r2
                  dup == ~isSnInfoLost(r3, resSN.ExtendedVal, resSN.PreExtendedHighest)
                  r4 == IF dup
                          THEN [r3 EXCEPT !.bytesDuplicate = @ + pktSize,
                                          !.headerBytesDuplicate = @ + HdrSize,
                                          !.packetsDuplicate = @ + 1]
                          ELSE setSnInfo([r3 EXCEPT !.packetsLost = @ - 1],
                                         resSN.ExtendedVal, resSN.PreExtendedHighest,
                                         pktSize, HdrSize, pkt.payloadSize,
                                         pkt.marker, TRUE)
              IN [r |-> IF dup THEN r4 ELSE CountPacket(r4, pkt, packetTime, pktSize),
                  recorded |-> TRUE,
                  flowState |-> [ZeroFlowState EXCEPT
                                    !.IsDuplicate = dup,
                                    !.IsOutOfOrder = TRUE,
                                    !.ExtSequenceNumber = resSN.ExtendedVal,
                                    !.ExtTimestamp = resTS.ExtendedVal]]

\* Update, "if gapSN <= 0": duplicate OR out-of-order
UpdateDuplicateOrOutOfOrder(r, pkt, resSN, resTS, packetTime, pktSize) ==
    LET padding == pkt.payloadSize = 0
        r1 == IF padding /\ resTS.IsRestart
                THEN [r EXCEPT !.timestamp = RollbackRestart(@, resTS.PreExtendedStart)]
                ELSE r
    IN IF padding /\ resSN.IsRestart
         THEN [r |-> [r1 EXCEPT !.sequenceNumber =
                                   RollbackRestart(@, resSN.PreExtendedStart)],
               recorded |-> FALSE,
               flowState |-> ZeroFlowState]
         ELSE LET r2 == [r1 EXCEPT !.packetsOutOfOrder =
                                      IF resSN.ExtendedVal # resSN.PreExtendedHighest
                                        THEN @ + 1 ELSE @]
                  r3 == IF resSN.IsRestart THEN AdjustStartSN(r2, resSN) ELSE r2
                  dup == ~isSnInfoLost(r3, resSN.ExtendedVal, resSN.PreExtendedHighest)
                  r4 == IF dup
                          THEN [r3 EXCEPT !.bytesDuplicate = @ + pktSize,
                                          !.headerBytesDuplicate = @ + HdrSize,
                                          !.packetsDuplicate = @ + 1]
                          ELSE setSnInfo([r3 EXCEPT !.packetsLost = @ - 1],
                                         resSN.ExtendedVal, resSN.PreExtendedHighest,
                                         pktSize, HdrSize, pkt.payloadSize,
                                         pkt.marker, TRUE)
              IN [r |-> IF dup THEN r4 ELSE CountPacket(r4, pkt, packetTime, pktSize),
                  recorded |-> TRUE,
                  flowState |-> [ZeroFlowState EXCEPT
                                    !.IsDuplicate = dup,
                                    !.IsOutOfOrder = TRUE,
                                    !.ExtSequenceNumber = resSN.ExtendedVal,
                                    !.ExtTimestamp = resTS.ExtendedVal]]

\* mutant of UpdateInSequence: the skipped sequence numbers are not counted as lost
UpdateInSequenceNoLoss(r, pkt, resSN, resTS, packetTime, pktSize) ==
    LET gapSN == resSN.ExtendedVal - resSN.PreExtendedHighest
        r1 == updateGapHistogram(r, gapSN)
        r2 == clearSnInfos(r1, resSN.PreExtendedHighest + 1, resSN.ExtendedVal)
        r3 == r2
        r4 == setSnInfo(r3, resSN.ExtendedVal, resSN.PreExtendedHighest, pktSize,
                        HdrSize, pkt.payloadSize, pkt.marker, FALSE)
        r5 == IF pkt.ts # resTS.PreExtendedHighest % TSRange
                THEN [r4 EXCEPT !.highestTime = packetTime] ELSE r4
    IN [r |-> CountPacket(r5, pkt, packetTime, pktSize),
        recorded |-> TRUE,
        flowState |-> [ZeroFlowState EXCEPT
                          !.HasLoss = gapSN > 1,
                          !.LossStartInclusive = IF gapSN > 1
                                                   THEN resSN.PreExtendedHighest + 1
                                                   ELSE 0,
                          !.LossEndExclusive = IF gapSN > 1 THEN resSN.ExtendedVal ELSE 0,
                          !.ExtSequenceNumber = resSN.ExtendedVal,
                          !.ExtTimestamp = resTS.ExtendedVal]]

\* Update, "else": in-order (gapSN > 0)
UpdateInSequence(r, pkt, resSN, resTS, packetTime, pktSize) ==
    LET gapSN == resSN.ExtendedVal - resSN.PreExtendedHighest
        r1 == updateGapHistogram(r, gapSN)
        r2 == clearSnInfos(r1, resSN.PreExtendedHighest + 1, resSN.ExtendedVal)
        r3 == [r2 EXCEPT !.packetsLost = @ + (gapSN - 1)]
        r4 == setSnInfo(r3, resSN.ExtendedVal, resSN.PreExtendedHighest, pktSize,
                        HdrSize, pkt.payloadSize, pkt.marker, FALSE)
        r5 == IF pkt.ts # resTS.PreExtendedHighest % TSRange
                THEN [r4 EXCEPT !.highestTime = packetTime] ELSE r4
    IN [r |-> CountPacket(r5, pkt, packetTime, pktSize),
        recorded |-> TRUE,
        flowState |-> [ZeroFlowState EXCEPT
                          !.HasLoss = gapSN > 1,
                          !.LossStartInclusive = IF gapSN > 1
                                                   THEN resSN.PreExtendedHighest + 1
                                                   ELSE 0,
                          !.LossEndExclusive = IF gapSN > 1 THEN resSN.ExtendedVal ELSE 0,
                          !.ExtSequenceNumber = resSN.ExtendedVal,
                          !.ExtTimestamp = resTS.ExtendedVal]]

\* mutant of RTPStatsUpdate: a padding-only packet may start the stream
RTPStatsUpdateStartsOnPadding(r, pkt, packetTime) ==
    LET uSN == WrapAroundUpdate(r.sequenceNumber, pkt.sn)
        uTS == WrapAroundUpdate(r.timestamp, pkt.ts)
        seeded == [r EXCEPT !.sequenceNumber = uSN.w, !.timestamp = uTS.w]
        r2 == IF r.initialized THEN seeded
              ELSE InitSnapshots(StartStream(seeded, packetTime))
        pktSize == HdrSize + pkt.payloadSize + pkt.paddingSize
        b == IF uSN.ExtendedVal - uSN.PreExtendedHighest <= 0
               THEN UpdateDuplicateOrOutOfOrder(r2, pkt, ResultOf(uSN), ResultOf(uTS),
                                                packetTime, pktSize)
               ELSE UpdateInSequence(r2, pkt, ResultOf(uSN), ResultOf(uTS),
                                     packetTime, pktSize)
    IN [r |-> b.r, recorded |-> b.recorded, flowState |-> b.flowState,
        resSN |-> ResultOf(uSN), resTS |-> ResultOf(uTS)]

\* RTPStats.Update(rtph, payloadSize, paddingSize, packetTime)
RTPStatsUpdate(r, pkt, packetTime) ==
    IF r.endTime # 0
      THEN [r |-> r, recorded |-> FALSE,
            flowState |-> [ZeroFlowState EXCEPT !.IsNotHandled = TRUE],
            resSN |-> ZeroResult, resTS |-> ZeroResult]
    ELSE LET r1 == Resync(r, pkt, packetTime)
         IN IF ~r1.initialized /\ pkt.payloadSize = 0
              THEN [r |-> r1, recorded |-> FALSE,
                    flowState |-> [ZeroFlowState EXCEPT !.IsNotHandled = TRUE],
                    resSN |-> ZeroResult, resTS |-> ZeroResult]
            ELSE LET uSN == WrapAroundUpdate(r1.sequenceNumber, pkt.sn)
                     uTS == WrapAroundUpdate(r1.timestamp, pkt.ts)
                     seeded == [r1 EXCEPT !.sequenceNumber = uSN.w,
                                          !.timestamp = uTS.w]
                     r2 == IF r1.initialized THEN seeded
                           ELSE InitSnapshots(StartStream(seeded, packetTime))
                     pktSize == HdrSize + pkt.payloadSize + pkt.paddingSize
                     b == IF uSN.ExtendedVal - uSN.PreExtendedHighest <= 0
                            THEN UpdateDuplicateOrOutOfOrder(
                                     r2, pkt, ResultOf(uSN), ResultOf(uTS),
                                     packetTime, pktSize)
                            ELSE UpdateInSequence(
                                     r2, pkt, ResultOf(uSN), ResultOf(uTS),
                                     packetTime, pktSize)
                 IN [r |-> b.r, recorded |-> b.recorded, flowState |-> b.flowState,
                     resSN |-> ResultOf(uSN), resTS |-> ResultOf(uTS)]

\* ToProto, "if gapsPresent": the map p.GapHistogram
ToProtoGapHistogram(r) ==
    [k \in {i + 1 : i \in {j \in DOMAIN r.gapHistogram : r.gapHistogram[j] # 0}}
        |-> r.gapHistogram[k - 1]]

NumSequenceNumbers == 65536

\* getExtHighestSNAdjusted
getExtHighestSNAdjusted(r) ==
    IF r.IsReceiverReportDriven /\ r.lastRRTime # 0
      THEN r.extHighestSNOverridden
      ELSE GetExtendedHighest(r.sequenceNumber)

\* getAndResetSnapshot that leaves the snapshot of snapshotId as it is
getAndResetSnapshotKeepsBaseline(r, snapshotId, override, t) ==
    IF ~r.initialized \/ (override /\ r.lastRRTime = 0)
      THEN [r |-> r, ok |-> FALSE, then |-> NewSnapshot(0, 0), now |-> NewSnapshot(0, 0)]
      ELSE LET then == IF snapshotId \in DOMAIN r.snapshots
                         THEN r.snapshots[snapshotId]
                         ELSE NewSnapshot(r.startTime,
                                          GetExtendedStart(r.sequenceNumber))
               snap == [startTime |-> IF override THEN r.lastRRTime ELSE t,
                        extStartSN |-> GetExtendedHighest(r.sequenceNumber) + 1,
                        extStartSNOverridden |-> getExtHighestSNAdjusted(r) + 1,
                        packetsDuplicate |-> r.packetsDuplicate,
                        bytesDuplicate |-> r.bytesDuplicate,
                        headerBytesDuplicate |-> r.headerBytesDuplicate,
                        packetsLostOverridden |-> r.packetsLostOverridden,
                        nacks |-> r.nacks, plis |-> r.plis, firs |-> r.firs,
                        maxRtt |-> r.rtt, maxJitter |-> r.jitter,
                        maxJitterOverridden |-> r.jitterOverridden]
           IN [r |-> r, ok |-> TRUE, then |-> then, now |-> snap]

\* getAndResetSnapshot(snapshotId, override) at time t: the engine after the
\* call, and then and now (ok is FALSE when both are nil)
getAndResetSnapshot(r, snapshotId, override, t) ==
    IF ~r.initialized \/ (override /\ r.lastRRTime = 0)
      THEN [r |-> r, ok |-> FALSE, then |-> NewSnapshot(0, 0), now |-> NewSnapshot(0, 0)]
      ELSE LET then == IF snapshotId \in DOMAIN r.snapshots
                         THEN r.snapshots[snapshotId]
                         ELSE NewSnapshot(r.startTime,
                                          GetExtendedStart(r.sequenceNumber))
               snap == [startTime |-> IF override THEN r.lastRRTime ELSE t,
                        extStartSN |-> GetExtendedHighest(r.sequenceNumber) + 1,
                        extStartSNOverridden |-> getExtHighestSNAdjusted(r) + 1,
                        packetsDuplicate |-> r.packetsDuplicate,
                        bytesDuplicate |-> r.bytesDuplicate,
                        headerBytesDuplicate |-> r.headerBytesDuplicate,
                        packetsLostOverridden |-> r.packetsLostOverridden,
                        nacks |-> r.nacks, plis |-> r.plis, firs |-> r.firs,
                        maxRtt |-> r.rtt, maxJitter |-> r.jitter,
                        maxJitterOverridden |-> r.jitterOverridden]
           IN [r |-> [r EXCEPT !.snapshots =
                         [i \in DOMAIN @ \cup {snapshotId} |->
                             IF i = snapshotId THEN snap ELSE @[i]]],
               ok |-> TRUE, then |-> then, now |-> snap]

NilDeltaInfo ==
    [nil |-> TRUE, StartTime |-> 0, Duration |-> 0, Packets |-> 0,
     PacketsDuplicate |-> 0, PacketsPadding |-> 0, PacketsLost |-> 0,
     Frames |-> 0]

\* DeltaInfo after getAndResetSnapshot has returned then and now: the walk
\* of [then.extStartSN, now.extStartSN) on the engine as it is when
\* r.lock is taken again.  A difference below 0 is above NumSequenceNumbers
\* in uint64.
DeltaInfoOf(r, ok, then, nowSnap) ==
    LET packetsExpected == nowSnap.extStartSN - then.extStartSN
    IN IF ~ok THEN NilDeltaInfo
       ELSE IF packetsExpected < 0 \/ packetsExpected > NumSequenceNumbers
         THEN NilDeltaInfo
       ELSE IF packetsExpected = 0
         THEN [NilDeltaInfo EXCEPT !.nil = FALSE, !.StartTime = then.startTime,
                                   !.Duration = nowSnap.startTime - then.startTime]
       ELSE LET intervalStats == getIntervalStats(r, then.extStartSN, nowSnap.extStartSN)
            IN [nil |-> FALSE, StartTime |-> then.startTime,
                Duration |-> nowSnap.startTime - then.startTime,
                Packets |-> packetsExpected - intervalStats.packetsPadding,
                PacketsDuplicate |-> nowSnap.packetsDuplicate - then.packetsDuplicate,
                PacketsPadding |-> intervalStats.packetsPadding,
                PacketsLost |-> intervalStats.packetsLost,
                Frames |-> intervalStats.frames]

\* RTPStats.Stop(): endTime = time.Now()
RTPStatsStop(r, t) == [r EXCEPT !.endTime = t]

\* RTPStats.NewSnapshotId(): no check of endTime
RTPStatsNewSnapshotId(r, t) ==
    LET id == r.nextSnapshotId
        snap == NewSnapshot(t, GetExtendedStart(r.sequenceNumber))
    IN [r |-> [r EXCEPT !.snapshots =
                           IF r.initialized
                             THEN [i \in DOMAIN @ \cup {id} |->
                                      IF i = id THEN snap ELSE @[i]]
                             ELSE @,
                        !.nextSnapshotId = @ + 1],
        id |-> id]

\* RTPStats.ResyncOnNextPacket(shouldDiscountPaddingOnlyDrops): no check of endTime
RTPStatsResyncOnNextPacket(r, shouldDiscountPaddingOnlyDrops) ==
    [r EXCEPT !.resyncOnNextPacket = TRUE,
              !.shouldDiscountPaddingOnlyDrops = shouldDiscountPaddingOnlyDrops]

RTPStatsUpdateNack(r, nackCount) ==
    IF r.endTime # 0 THEN r ELSE [r EXCEPT !.nacks = @ + nackCount]

RTPStatsUpdatePli(r, pliCount) ==
    IF r.endTime # 0 THEN r ELSE [r EXCEPT !.plis = @ + pliCount]

RTPStatsUpdateFir(r, firCount) ==
    IF r.endTime # 0 THEN r ELSE [r EXCEPT !.firs = @ + firCount]

RTPStatsUpdateKeyFrame(r, kfCount, t) ==
    IF r.endTime # 0 THEN r
    ELSE [r EXCEPT !.keyFrames = @ + kfCount, !.lastKeyFrame = t]

RTPStatsUpdateRtt(r, rtt) ==
    IF r.endTime # 0 THEN r
    ELSE [r EXCEPT !.rtt = rtt,
                   !.maxRtt = MaxOf(@, rtt),
                   !.snapshots = [id \in DOMAIN @ |->
                                     [@[id] EXCEPT !.maxRtt = MaxOf(@, rtt)]]]

\* the upper bits of a value of a 32-bit field extended to 64 bits
\* (x & 0xFFFF_FFFF_0000_0000), in the width TSRange
UpperBits(x) == (x \div TSRange) * TSRange

\* (a - b) < (1 << 31) && a < b on 32-bit fields: a has wrapped since b
HasWrapped(a, b) == SubMod(a, b, TSRange) < TSRange \div 2 /\ a < b

\* RTPStats.UpdateFromReceiverReport(rr); rttRes is what
\* mediatransportutil.GetRttMs returns for rr and the newest sender report:
\* [ok |-> err == nil, rtt |-> the round trip time]
RTPStatsUpdateFromReceiverReport(r, rr, rttRes, t) ==
    IF ~r.initialized \/ r.endTime # 0 \/ ~r.IsReceiverReportDriven
      THEN [r |-> r, rtt |-> 0, isRttChanged |-> FALSE]
    ELSE
      LET ext0 == UpperBits(r.extHighestSNOverridden) + rr.LastSequenceNumber
          extHighestSNOverridden ==
              IF r.lastRRTime # 0
                   /\ HasWrapped(rr.LastSequenceNumber, r.lastRR.LastSequenceNumber)
                THEN ext0 + TSRange ELSE ext0
          haveRtt == r.srNewest # <<>> /\ rttRes.ok
          rtt == IF haveRtt THEN rttRes.rtt ELSE 0
          isRttChanged == haveRtt /\ rtt # r.rtt
          lost0 == UpperBits(r.packetsLostOverridden) + rr.TotalLost
          packetsLostOverridden ==
              IF HasWrapped(rr.TotalLost, r.lastRR.TotalLost)
                THEN lost0 + TSRange ELSE lost0
          maxJitterOverridden == MaxOf(r.maxJitterOverridden, rr.Jitter)
      IN IF extHighestSNOverridden < GetExtendedStart(r.sequenceNumber)
           THEN [r |-> [r EXCEPT !.lastRRTime = t, !.lastRR = rr],
                 rtt |-> 0, isRttChanged |-> FALSE]
         ELSE IF r.lastRRTime = 0 \/ r.extHighestSNOverridden <= extHighestSNOverridden
           THEN [r |-> [r EXCEPT
                    !.extHighestSNOverridden = extHighestSNOverridden,
                    !.packetsLostOverridden = packetsLostOverridden,
                    !.rtt = IF isRttChanged THEN rtt ELSE @,
                    !.maxRtt = IF isRttChanged THEN MaxOf(@, rtt) ELSE @,
                    !.jitterOverridden = rr.Jitter,
                    !.maxJitterOverridden = maxJitterOverridden,
                    !.snapshots = [id \in DOMAIN @ |->
                        [@[id] EXCEPT
                            !.maxRtt = IF isRttChanged THEN MaxOf(@, rtt) ELSE @,
                            !.maxJitterOverridden = MaxOf(@, rr.Jitter)]],
                    !.lastRRTime = t,
                    !.lastRR = rr],
                 rtt |-> rtt, isRttChanged |-> isRttChanged]
         ELSE [r |-> r, rtt |-> rtt, isRttChanged |-> isRttChanged]

\* milliseconds
firstPacketTimeAdjustWindow == 120000

firstPacketTimeAdjustThreshold == 5000

\* the duration of samplesDiff ticks is taken in whole milliseconds
maybeAdjustFirstPacketTime(r, ets, t) ==
    LET samplesDiff == ets - GetExtendedStart(r.timestamp)
        samplesDuration == samplesDiff \div (ClockRate \div 1000)
        firstTime == t - samplesDuration
    IN IF t - r.startTime > firstPacketTimeAdjustWindow THEN r
       ELSE IF samplesDiff < 0 THEN r
       ELSE IF firstTime < r.firstTime
                 /\ r.firstTime - firstTime <= firstPacketTimeAdjustThreshold
         THEN [r EXCEPT !.firstTime = firstTime]
       ELSE r

\* mutant of RTPStatsSetRtcpSenderReportData: srFirst is kept when the
\* extended timestamp goes back
RTPStatsSetRtcpSenderReportDataKeepsFirst(r, srData, t) ==
    IF srData = <<>> \/ ~r.initialized THEN r
    ELSE LET sr == srData[1]
             have == r.srNewest # <<>>
             newest == IF have THEN r.srNewest[1] ELSE sr
         IN IF have /\ newest.NTPTimestamp > sr.NTPTimestamp THEN r
            ELSE LET tsCycles ==
                         IF ~have THEN 0
                         ELSE UpperBits(newest.RTPTimestampExt)
                                + (IF HasWrapped(sr.RTPTimestamp, newest.RTPTimestamp)
                                     THEN TSRange ELSE 0)
                     pcCycles ==
                         IF ~have THEN 0
                         ELSE UpperBits(newest.PacketCountExt)
                                + (IF HasWrapped(sr.PacketCount, newest.PacketCount)
                                     THEN TSRange ELSE 0)
                     srDataCopy == [sr EXCEPT
                                      !.RTPTimestampExt = sr.RTPTimestamp + tsCycles,
                                      !.PacketCountExt = sr.PacketCount + pcCycles]
                     r1 == maybeAdjustFirstPacketTime(r, srDataCopy.RTPTimestampExt, t)
                     reset == have /\ srDataCopy.RTPTimestampExt < newest.RTPTimestampExt
                 IN [r1 EXCEPT !.srNewest = <<srDataCopy>>,
                               !.srFirst = IF @ = <<>>
                                             THEN <<srDataCopy>> ELSE @]

\* RTPStats.SetRtcpSenderReportData(srData): srData is <<>> (nil) or a
\* one-element sequence; no check of endTime.  An NtpTime is carried as the
\* time it encodes.
RTPStatsSetRtcpSenderReportData(r, srData, t) ==
    IF srData = <<>> \/ ~r.initialized THEN r
    ELSE LET sr == srData[1]
             have == r.srNewest # <<>>
             newest == IF have THEN r.srNewest[1] ELSE sr
         IN IF have /\ newest.NTPTimestamp > sr.NTPTimestamp THEN r
            ELSE LET tsCycles ==
                         IF ~have THEN 0
                         ELSE UpperBits(newest.RTPTimestampExt)
                                + (IF HasWrapped(sr.RTPTimestamp, newest.RTPTimestamp)
                                     THEN TSRange ELSE 0)
                     pcCycles ==
                         IF ~have THEN 0
                         ELSE UpperBits(newest.PacketCountExt)
                                + (IF HasWrapped(sr.PacketCount, newest.PacketCount)
                                     THEN TSRange ELSE 0)
                     srDataCopy == [sr EXCEPT
                                      !.RTPTimestampExt = sr.RTPTimestamp + tsCycles,
                                      !.PacketCountExt = sr.PacketCount + pcCycles]
                     r1 == maybeAdjustFirstPacketTime(r, srDataCopy.RTPTimestampExt, t)
                     reset == have /\ srDataCopy.RTPTimestampExt < newest.RTPTimestampExt
                 IN [r1 EXCEPT !.srNewest = <<srDataCopy>>,
                               !.srFirst = IF reset \/ @ = <<>>
                                             THEN <<srDataCopy>> ELSE @]

\* RTPStats.GetRtcpSenderReport(ssrc, calculatedClockRate): no check of
\* endTime; report is <<>> for nil
RTPStatsGetRtcpSenderReport(r, ssrc, calculatedClockRate, t) ==
    IF ~r.initialized THEN [r |-> r, report |-> <<>>]
    ELSE
      LET timeSinceFirst == t - r.firstTime
          timeSinceHighest == t - r.highestTime
          usingTime == GetExtendedHighest(r.timestamp)
                         + (timeSinceHighest * ClockRate) \div 1000
          usingRate == GetExtendedStart(r.timestamp)
                         + (calculatedClockRate * timeSinceFirst) \div 1000
          ext1 == IF calculatedClockRate # 0 /\ usingRate > usingTime
                    THEN usingRate ELSE usingTime
          behind == r.srNewest # <<>> /\ ext1 < r.srNewest[1].RTPTimestampExt
          nowRTPExt ==
              IF behind
                THEN r.srNewest[1].RTPTimestampExt
                       + ((t - r.srNewest[1].NTPTimestamp) * ClockRate) \div 1000
                ELSE ext1
          sr == [RTPTimestamp |-> nowRTPExt % TSRange, RTPTimestampExt |-> nowRTPExt,
                 NTPTimestamp |-> t, PacketCount |-> 0, PacketCountExt |-> 0,
                 PaddingOnlyDrops |-> 0, At |-> t]
      IN [r |-> [r EXCEPT !.srNewest = <<sr>>,
                          !.srFirst = IF @ = <<>> THEN <<sr>> ELSE @],
          report |-> <<[SSRC |-> ssrc, NTPTime |-> t, RTPTime |-> nowRTPExt % TSRange,
                        PacketCount |-> (getTotalPacketsPrimary(r) + r.packetsDuplicate
                                           + r.packetsPadding) % TSRange,
                        OctetCount |-> (r.bytes + r.bytesDuplicate + r.bytesPadding)
                                           % TSRange]>>]

----------------------------------------------------------------------------
(* sfu.sequencer                                                           *)
(* seq holds, for every slot, the index in meta of the packetMeta the slot *)
(* points to, or -1 for nil: two slots may point to the same element of    *)
(* meta.  Times are milliseconds since startTime (getRefTime()).           *)

defaultRtt == 70

ignoreRetransmission == 100

maxAck == 3

ZeroPacketMeta ==
    [sourceSeqNo |-> 0, targetSeqNo |-> 0, timestamp |-> 0, marker |-> FALSE,
     lastNack |-> 0, nacked |-> 0, layer |-> 0, codecBytes |-> <<>>,
     ddBytes |-> <<>>]

newSequencer(maxTrack, maxPadding) ==
    [init |-> FALSE, max |-> maxTrack + maxPadding,
     seq |-> [i \in 0 .. (maxTrack + maxPadding - 1) |-> -1],
     meta |-> [i \in 0 .. (maxTrack - 1) |-> ZeroPacketMeta],
     metaWritePtr |-> 0, step |-> 0, headSN |-> 0, rtt |-> defaultRtt]

setRTT(s, rtt) == [s EXCEPT !.rtt = IF rtt = 0 THEN defaultRtt ELSE rtt]

\* the result of the two loops of wrap
wrap(s, slot) == slot % s.max

\* getSlot, "else" branch: the head moves to offSn and the diff - 1
\* intervening slots from step on are set to nil
getSlotInOrder(s, offSn, diff) ==
    [s |-> [s EXCEPT !.headSN = offSn,
                     !.seq = [i \in DOMAIN @ |->
                                 IF \E idx \in 0 .. (diff - 2) : wrap(s, s.step + idx) = i
                                   THEN -1 ELSE @[i]],
                     !.step = wrap(s, s.step + diff)],
     slot |-> wrap(s, s.step + diff - 1), isValid |-> TRUE]

\* mutant of getSlot: an out-of-order packet goes to slot step - back
getSlotStepBack(s, offSn) ==
    LET s1 == IF s.init THEN s
              ELSE [s EXCEPT !.headSN = (offSn - 1) % U16Range, !.init = TRUE]
        diff == SubMod(offSn, s1.headSN, U16Range)
        back == SubMod(s1.headSN, offSn, U16Range)
    IN IF diff = 0 THEN [s |-> s1, slot |-> 0, isValid |-> FALSE]
       ELSE IF diff > U16Range \div 2
         THEN IF back >= s1.max
                THEN [s |-> s1, slot |-> 0, isValid |-> FALSE]
                ELSE [s |-> s1, slot |-> wrap(s1, s1.step - back),
                      isValid |-> TRUE]
       ELSE getSlotInOrder(s1, offSn, diff)

\* getSlot(offSn): the sequencer after the call, the slot and isValid
getSlot(s, offSn) ==
    LET s1 == IF s.init THEN s
              ELSE [s EXCEPT !.headSN = (offSn - 1) % U16Range, !.init = TRUE]
        diff == SubMod(offSn, s1.headSN, U16Range)
        back == SubMod(s1.headSN, offSn, U16Range)
    IN IF diff = 0 THEN [s |-> s1, slot |-> 0, isValid |-> FALSE]
       ELSE IF diff > U16Range \div 2
         THEN IF back >= s1.max
                THEN [s |-> s1, slot |-> 0, isValid |-> FALSE]
                ELSE [s |-> s1, slot |-> wrap(s1, s1.step - back - 1),
                      isValid |-> TRUE]
       ELSE getSlotInOrder(s1, offSn, diff)

\* push(sn, offSn, timeStamp, marker, layer, codecBytes, ddBytes) at refTime
push(s, sn, offSn, timeStamp, marker, layer, codecBytes, ddBytes, refTime) ==
    LET g == getSlot(s, offSn)
        pm == [sourceSeqNo |-> sn, targetSeqNo |-> offSn, timestamp |-> timeStamp,
               marker |-> marker, lastNack |-> refTime, nacked |-> 0,
               layer |-> layer, codecBytes |-> codecBytes, ddBytes |-> ddBytes]
    IN IF ~g.isValid THEN g.s
       ELSE [g.s EXCEPT !.meta[g.s.metaWritePtr] = pm,
                        !.seq[g.slot] = g.s.metaWritePtr,
                        !.metaWritePtr = IF @ + 1 >= Cardinality(DOMAIN g.s.meta)
                                           THEN @ + 1 - Cardinality(DOMAIN g.s.meta) ELSE @ + 1]

\* mutant of pushPadding: the slot keeps what it points to
pushPaddingKeepsSlot(s, offSn) == getSlot(s, offSn).s

pushPadding(s, offSn) ==
    LET g == getSlot(s, offSn)
    IN IF ~g.isValid THEN g.s ELSE [g.s EXCEPT !.seq[g.slot] = -1]

\* mutant of lookupMeta: the packetMeta the slot points to is taken as it is
lookupMetaAnyTarget(s, sn) ==
    LET diff == SubMod(s.headSN, sn, U16Range)
    IN IF diff > U16Range \div 2 \/ diff >= s.max THEN -1
       ELSE LET m == s.seq[wrap(s, s.step - diff - 1)]
            IN IF m = -1 THEN -1
               ELSE m

\* getPacketsMeta, the lookup of one sequence number: the index in meta of
\* its packetMeta, or -1 when the loop continues without one
lookupMeta(s, sn) ==
    LET diff == SubMod(s.headSN, sn, U16Range)
    IN IF diff > U16Range \div 2 \/ diff >= s.max THEN -1
       ELSE LET m == s.seq[wrap(s, s.step - diff - 1)]
            IN IF m = -1 THEN -1
               ELSE IF s.meta[m].targetSeqNo # sn THEN -1 ELSE m

\* uint32(math.Min(float64(ignoreRetransmission), float64(2*s.rtt)))
nackThreshold(s) == MinOf(ignoreRetransmission, 2 * s.rtt)

\* mutant of shouldRetransmit: a request at the threshold is answered
shouldRetransmitAtThreshold(s, pm, refTime) ==
    refTime - pm.lastNack >= nackThreshold(s) /\ pm.nacked < maxAck

\* getPacketsMeta, the condition under which a found packet is returned
shouldRetransmit(s, pm, refTime) ==
    refTime - pm.lastNack > nackThreshold(s) /\ pm.nacked < maxAck

\* getPacketsMeta(seqNo) at refTime: the sequencer after the call and the
\* metas returned
RECURSIVE getPacketsMeta(_, _, _)
getPacketsMeta(s, seqNo, refTime) ==
    IF seqNo = <<>> THEN [s |-> s, meta |-> <<>>]
    ELSE LET sn == Head(seqNo)
             m == lookupMeta(s, sn)
             hit == m # -1 /\ shouldRetransmit(s, s.meta[m], refTime)
             s1 == IF hit
                     THEN [s EXCEPT !.meta[m].nacked = @ + 1,
                                    !.meta[m].lastNack = refTime]
                     ELSE s
             rest == getPacketsMeta(s1, Tail(seqNo), refTime)
         IN [s |-> rest.s,
             meta |-> IF hit THEN <<s1.meta[m]>> \o rest.meta ELSE rest.meta]

----------------------------------------------------------------------------
(* utils.OpsQueue                                                          *)
(* ops is the deque of closures, each closure standing as the number of    *)
(* the Enqueue call that brought it.  A channel is the number of values    *)
(* buffered in it and the number of times it was closed: closing a closed  *)
(* channel panics, so a count above 1 is a panic.                          *)

\* make(chan struct{}, 1)
WakeCap == 1

NewOpsQueue(flushOnStop) ==
    [params |-> [FlushOnStop |-> flushOnStop], ops |-> <<>>,
     wake |-> 0, wakeClosed |-> 0, isStarted |-> FALSE,
     doneChan |-> "doneChan", doneClosed |-> 0, isStopped |-> FALSE]

\* mutant of OpsQueueStart: every Start launches a consumer
OpsQueueStartAlways(q) == [q |-> [q EXCEPT !.isStarted = TRUE], go |-> TRUE]

\* Start, up to the unlock: the queue after it, and whether the call goes on
\* to "go oq.process()"
OpsQueueStart(q) ==
    IF q.isStarted THEN [q |-> q, go |-> FALSE]
    ELSE [q |-> [q EXCEPT !.isStarted = TRUE], go |-> TRUE]

\* mutant of OpsQueueStop: every Stop closes the wake channel
OpsQueueStopAlwaysCloses(q) ==
    [q |-> [q EXCEPT !.isStopped = TRUE, !.wakeClosed = @ + 1], ret |-> q.doneChan]

\* Stop: the queue after it and the channel returned
OpsQueueStop(q) ==
    IF q.isStopped THEN [q |-> q, ret |-> q.doneChan]
    ELSE [q |-> [q EXCEPT !.isStopped = TRUE, !.wakeClosed = @ + 1],
          ret |-> q.doneChan]

\* mutant of OpsQueueEnqueue: isStopped is not read
OpsQueueEnqueueAfterStop(q, op) ==
    [q EXCEPT !.ops = Append(@, op),
              !.wake = IF Len(q.ops) = 0 /\ @ < WakeCap THEN @ + 1 ELSE @]

\* mutant of OpsQueueEnqueue: the wake is sent when the deque had one closure
OpsQueueEnqueueWakeOnSecond(q, op) ==
    IF q.isStopped THEN q
    ELSE [q EXCEPT !.ops = Append(@, op),
                   !.wake = IF Len(q.ops) = 1 /\ @ < WakeCap THEN @ + 1 ELSE @]

\* mutant of OpsQueueEnqueue: the closure is put at the front
OpsQueueEnqueueFront(q, op) ==
    IF q.isStopped THEN q
    ELSE [q EXCEPT !.ops = <<op>> \o @,
                   !.wake = IF Len(q.ops) = 0 /\ @ < WakeCap THEN @ + 1 ELSE @]

\* Enqueue: PushBack, and a wake sent without blocking when the deque was
\* empty
OpsQueueEnqueue(q, op) ==
    IF q.isStopped THEN q
    ELSE [q EXCEPT !.ops = Append(@, op),
                   !.wake = IF Len(q.ops) = 0 /\ @ < WakeCap THEN @ + 1 ELSE @]

\* mutant of CanReceiveWake: a closed channel blocks the receive
CanReceiveWakeBufferedOnly(q) == q.wake > 0

\* process, "<-oq.wake": a buffered value, or the closed channel, lets the
\* receive through
CanReceiveWake(q) == q.wake > 0 \/ q.wakeClosed > 0

ReceiveWake(q) == IF q.wake > 0 THEN [q EXCEPT !.wake = @ - 1] ELSE q

\* mutant of processLocked: a stopped queue is left at once, flushing or not
processLockedNoFlush(q) ==
    IF q.isStopped THEN [q |-> q, next |-> "return", op |-> 0]
    ELSE IF Len(q.ops) = 0 THEN [q |-> q, next |-> "break", op |-> 0]
    ELSE [q |-> [q EXCEPT !.ops = Tail(@)], next |-> "op", op |-> Head(q.ops)]

\* process, the locked part of the inner loop: return, break to the receive,
\* or PopFront of the closure to run
processLocked(q) ==
    IF q.isStopped /\ (~q.params.FlushOnStop \/ Len(q.ops) = 0)
      THEN [q |-> q, next |-> "return", op |-> 0]
    ELSE IF Len(q.ops) = 0 THEN [q |-> q, next |-> "break", op |-> 0]
    ELSE [q |-> [q EXCEPT !.ops = Tail(@)], next |-> "op", op |-> Head(q.ops)]

\* process, "defer close(oq.doneChan)"
CloseDoneChan(q) == [q EXCEPT !.doneClosed = @ + 1]

----------------------------------------------------------------------------
(* sfu.StreamTrackerManager                                                *)
(* trackers holds, per spatial layer, whether a tracker is set.  What a    *)
(* tracker answers to BitrateTemporalCumulative is an input of the call    *)
(* that asks: tb gives, per spatial layer, the vector of its tracker.  A   *)
(* method is an operator to the manager after the call and the listener    *)
(* callbacks the call makes, in order.                                     *)

DefaultMaxLayerSpatial == 2

DefaultMaxLayerTemporal == 3

InvalidLayerSpatial == -1

InvalidLayerTemporal == -1

InvalidLayer == [Spatial |-> InvalidLayerSpatial, Temporal |-> InvalidLayerTemporal]

\* VideoLayer.IsValid
IsValid(v) == v.Spatial # InvalidLayerSpatial /\ v.Temporal # InvalidLayerTemporal

SpatialLayers == 0 .. DefaultMaxLayerSpatial

TemporalLayers == 0 .. DefaultMaxLayerTemporal

\* var br Bitrates
ZeroBitrates == [i \in SpatialLayers |-> [j \in TemporalLayers |-> 0]]

MaxInSet(S) == CHOOSE x \in S : \A y \in S : y <= x

\* the spatial layers of s.trackInfo.Layers; without layers the expected
\* layer is invalid
maxExpectedLayerFromTrackInfo(s) ==
    [s EXCEPT !.maxExpectedLayer = MaxInSet(s.trackInfoLayers \cup {InvalidLayerSpatial})]

\* a *buffer.RTCPSenderReportData: nil, or the RTP timestamp and the NTP time
\* of the report.  The NTP time is in milliseconds, 0 being the zero
\* NtpTime; the 32-bit RTP timestamp is carried in TSRange values.
NilSenderReport == [isNil |-> TRUE, RTPTimestamp |-> 0, NTPTimestamp |-> 0]

SenderReport(rtp, ntp) == [isNil |-> FALSE, RTPTimestamp |-> rtp, NTPTimestamp |-> ntp]

NewStreamTrackerManager(trackInfoLayers, isSVC, clockRate) ==
    maxExpectedLayerFromTrackInfo(
        [trackInfoLayers |-> trackInfoLayers, isSVC |-> isSVC,
         clockRate |-> clockRate,
         senderReports |-> [l \in SpatialLayers |->
             [first |-> NilSenderReport, newest |-> NilSenderReport,
              lastUpdated |-> 0]],
         layerOffsets |-> [r \in SpatialLayers |-> [o \in SpatialLayers |-> 0]],
         maxPublishedLayer |-> InvalidLayerSpatial,
         maxTemporalLayerSeen |-> InvalidLayerTemporal,
         ddTracker |-> FALSE,
         trackers |-> [l \in SpatialLayers |-> FALSE],
         availableLayers |-> <<>>, maxExpectedLayer |-> InvalidLayerSpatial,
         paused |-> FALSE, closed |-> FALSE, listener |-> FALSE])

SetListener(s) == [s EXCEPT !.listener = TRUE]

Close(s) == [s EXCEPT !.closed = TRUE]

\* the callbacks made when a listener is set
Notify(s, calls) == IF s.listener THEN calls ELSE <<>>

\* sort.Slice(x, func(i, j) bool { return x[i] < x[j] })
RECURSIVE InsertSorted(_, _)
InsertSorted(sorted, x) ==
    IF sorted = <<>> THEN <<x>>
    ELSE IF x < Head(sorted) THEN <<x>> \o sorted
    ELSE <<Head(sorted)>> \o InsertSorted(Tail(sorted), x)

RECURSIVE SortSlice(_)
SortSlice(x) ==
    IF x = <<>> THEN <<>>
    ELSE InsertSorted(SortSlice(SubSeq(x, 1, Len(x) - 1)), x[Len(x)])

LastOr(x, none) == IF Len(x) > 0 THEN x[Len(x)] ELSE none

hasSpatialLayerLocked(s, layer) ==
    \E i \in 1 .. Len(s.availableLayers) : s.availableLayers[i] = layer

\* mutant of addAvailableLayer: a layer that is there is appended again
addAvailableLayerAgain(s, layer) ==
    LET s1 == [s EXCEPT !.availableLayers = SortSlice(Append(@, layer))]
    IN [s |-> s1,
        calls |-> Notify(s1, <<[cb |-> "OnAvailableLayersChanged", arg |-> 0]>>)]

addAvailableLayer(s, layer) ==
    IF hasSpatialLayerLocked(s, layer) THEN [s |-> s, calls |-> <<>>]
    ELSE LET s1 == [s EXCEPT !.availableLayers = SortSlice(Append(@, layer))]
             isMaxLayerChange == s1.availableLayers[Len(s1.availableLayers)] = layer
         IN [s |-> s1,
             calls |-> Notify(s1,
                 <<[cb |-> "OnAvailableLayersChanged", arg |-> 0]>> \o
                 (IF isMaxLayerChange
                    THEN <<[cb |-> "OnMaxAvailableLayerChanged", arg |-> layer]>>
                    ELSE <<>>))]

removeAvailableLayer(s, layer) ==
    LET prevMaxLayer == LastOr(s.availableLayers, InvalidLayerSpatial)
        newLayers == SortSlice(SelectSeq(s.availableLayers, LAMBDA l : l # layer))
        s1 == [s EXCEPT !.availableLayers = newLayers]
        curMaxLayer == LastOr(newLayers, InvalidLayerSpatial)
    IN [s |-> s1,
        calls |-> Notify(s1,
            <<[cb |-> "OnAvailableLayersChanged", arg |-> 0]>> \o
            (IF curMaxLayer # prevMaxLayer
               THEN <<[cb |-> "OnMaxAvailableLayerChanged", arg |-> curMaxLayer]>>
               ELSE <<>>))]

\* AddTracker, the callback given to tracker.OnStatusChanged
OnStatusChanged(s, layer, status) ==
    IF status = "Stopped" THEN removeAvailableLayer(s, layer)
    ELSE addAvailableLayer(s, layer)

\* AddTracker for a layer that the tracker configuration knows
AddTracker(s, layer) ==
    LET notify == layer > s.maxPublishedLayer
        s1 == [s EXCEPT !.trackers[layer] = TRUE,
                        !.maxPublishedLayer = IF notify THEN layer ELSE @]
    IN [s |-> s1,
        calls |-> IF notify
                    THEN Notify(s1, <<[cb |-> "OnMaxPublishedLayerChanged", arg |-> layer]>>)
                    ELSE <<>>]

RemoveTracker(s, layer) == [s EXCEPT !.trackers[layer] = FALSE]

RemoveAllTrackers(s) ==
    maxExpectedLayerFromTrackInfo(
        [s EXCEPT !.trackers = [l \in SpatialLayers |-> FALSE],
                  !.availableLayers = <<>>,
                  !.paused = FALSE,
                  !.ddTracker = FALSE])

SetPaused(s, paused) == [s EXCEPT !.paused = paused]

\* mutant of SetMaxExpectedSpatialLayer: the trackers of available layers
\* are Reset too
SetMaxExpectedSpatialLayerResetsAll(s, layer) ==
    [s |-> [s EXCEPT !.maxExpectedLayer = layer],
     prev |-> s.maxExpectedLayer,
     reset |-> IF layer <= s.maxExpectedLayer THEN {}
               ELSE {l \in (s.maxExpectedLayer + 1) .. layer : s.trackers[l]}]

\* SetMaxExpectedSpatialLayer: the manager after the call, the value
\* returned and the layers whose trackers are Reset
SetMaxExpectedSpatialLayer(s, layer) ==
    [s |-> [s EXCEPT !.maxExpectedLayer = layer],
     prev |-> s.maxExpectedLayer,
     reset |-> IF layer <= s.maxExpectedLayer THEN {}
               ELSE {l \in (s.maxExpectedLayer + 1) .. layer :
                        ~hasSpatialLayerLocked(s, l) /\ s.trackers[l]}]

\* AddDependencyDescriptorTrackers: the first call sets the shared tracker
\* and adds a tracker for every spatial layer
RECURSIVE AddTrackersFrom(_, _)
AddTrackersFrom(r, i) ==
    IF i > DefaultMaxLayerSpatial THEN r
    ELSE LET a == AddTracker(r.s, i)
         IN AddTrackersFrom([s |-> a.s, calls |-> r.calls \o a.calls], i + 1)

AddDependencyDescriptorTrackers(s) ==
    IF s.ddTracker THEN [s |-> s, calls |-> <<>>]
    ELSE AddTrackersFrom([s |-> [s EXCEPT !.ddTracker = TRUE], calls |-> <<>>], 0)

\* br[k][j] + ... + br[0][j]
RECURSIVE SumBelow(_, _, _)
SumBelow(br, k, j) == IF k < 0 THEN 0 ELSE br[k][j] + SumBelow(br, k - 1, j)

\* getLayeredBitrateLocked: the bitrates of the trackers of available
\* layers, accumulated for SVC without dependency descriptor, and a copy of
\* availableLayers
getLayeredBitrateLocked(s, tb) ==
    LET br == [i \in SpatialLayers |->
                  IF s.trackers[i] /\ hasSpatialLayerLocked(s, i)
                    THEN tb[i] ELSE ZeroBitrates[i]]
        acc == [i \in SpatialLayers |-> [j \in TemporalLayers |->
                   IF i >= 1 /\ br[i][j] # 0
                     THEN br[i][j] + SumBelow(br, i - 1, j)
                     ELSE br[i][j]]]
    IN [al |-> s.availableLayers,
        brs |-> IF s.isSVC /\ ~s.ddTracker THEN acc ELSE br]

\* the highest temporal layer with a bitrate on some spatial layer
maxTemporalLayerOf(brs) ==
    MaxInSet({InvalidLayerTemporal} \cup
             {t \in TemporalLayers : \E sp \in SpatialLayers : brs[sp][t] # 0})

\* mutant of updateMaxTemporalLayerSeen: the value of the report is stored
updateMaxTemporalLayerSeenAlways(s, brs) ==
    LET maxTemporalLayerSeen == maxTemporalLayerOf(brs)
        s1 == [s EXCEPT !.maxTemporalLayerSeen = maxTemporalLayerSeen]
    IN [s |-> s1,
        calls |-> Notify(s1, <<[cb |-> "OnMaxTemporalLayerSeenChanged",
                                arg |-> maxTemporalLayerSeen]>>)]

updateMaxTemporalLayerSeen(s, brs) ==
    LET maxTemporalLayerSeen == maxTemporalLayerOf(brs)
    IN IF maxTemporalLayerSeen <= s.maxTemporalLayerSeen
         THEN [s |-> s, calls |-> <<>>]
         ELSE LET s1 == [s EXCEPT !.maxTemporalLayerSeen = maxTemporalLayerSeen]
              IN [s |-> s1,
                  calls |-> Notify(s1, <<[cb |-> "OnMaxTemporalLayerSeenChanged",
                                          arg |-> maxTemporalLayerSeen]>>)]

\* mutant of maxLayerOf: the available layers are not looked at
maxLayerOfBitrateOnly(s, al, brs) ==
    LET withBitrate == {sp \in SpatialLayers : \E t \in TemporalLayers : brs[sp][t] # 0}
    IN IF withBitrate = {} THEN InvalidLayer
       ELSE LET sp == MaxInSet(withBitrate)
            IN [Spatial |-> sp,
                Temporal |-> MaxInSet({t \in TemporalLayers : brs[sp][t] # 0})]

\* DistanceToDesired, the layer found: the highest spatial layer with a
\* bitrate, with its highest temporal layer with a bitrate, or a higher
\* available layer with the max temporal layer seen
maxLayerOf(s, al, brs) ==
    LET withBitrate == {sp \in SpatialLayers : \E t \in TemporalLayers : brs[sp][t] # 0}
        byBitrate ==
            IF withBitrate = {} THEN InvalidLayer
            ELSE LET sp == MaxInSet(withBitrate)
                 IN [Spatial |-> sp,
                     Temporal |-> MaxInSet({t \in TemporalLayers : brs[sp][t] # 0})]
    IN IF \E i \in 1 .. Len(al) : al[i] > byBitrate.Spatial
         THEN [Spatial |-> MaxInSet({al[i] : i \in 1 .. Len(al)}),
               Temporal |-> s.maxTemporalLayerSeen]
         ELSE byBitrate

\* DistanceToDesired: the float64 returned is num / den
DistanceToDesired(s, tb) ==
    IF s.paused \/ s.maxExpectedLayer < 0 \/ s.maxTemporalLayerSeen < 0
      THEN [num |-> 0, den |-> 1]
    ELSE LET g == getLayeredBitrateLocked(s, tb)
             maxLayer == maxLayerOf(s, g.al, g.brs)
             adjustedMaxLayers == IF ~IsValid(maxLayer)
                                    THEN [Spatial |-> 0, Temporal |-> 0]
                                    ELSE maxLayer
             distance ==
                 ((s.maxExpectedLayer - adjustedMaxLayers.Spatial)
                     * (s.maxTemporalLayerSeen + 1))
                 + (s.maxTemporalLayerSeen - adjustedMaxLayers.Temporal)
         IN [num |-> IF ~IsValid(maxLayer) THEN distance + 1 ELSE distance,
             den |-> s.maxTemporalLayerSeen + 1]

senderReportThresholdSeconds == 60

\* the quotient of Go's integer division, which truncates toward zero
TruncDiv(a, b) == IF a >= 0 THEN a \div b ELSE -((-a) \div b)

Abs(a) == IF a >= 0 THEN a ELSE -a

\* updateLayerOffsetLocked, "ntpDiff.Nanoseconds() * int64(s.clockRate) / 1e9"
\* for an ntpDiff of whole milliseconds and a clock rate that is a multiple
\* of 100: the same quotient, without the nanoseconds
rtpDiffOf(ntpDiff, clockRate) == TruncDiv(ntpDiff * (clockRate \div 100), 10)

\* mutant of updateLayerOffsetLocked: only the offsets of a reference layer
\* below the other layer are filled
updateLayerOffsetLockedUpward(s, ref, other) ==
    LET srRef == s.senderReports[ref].newest
        srOther == s.senderReports[other].newest
    IN IF ref > other \/ srRef.isNil \/ srRef.NTPTimestamp = 0
             \/ srOther.isNil \/ srOther.NTPTimestamp = 0
         THEN s
       ELSE LET ntpDiff == srRef.NTPTimestamp - srOther.NTPTimestamp
            IN IF Abs(ntpDiff) > senderReportThresholdSeconds * 1000 THEN s
               ELSE LET rtpDiff == rtpDiffOf(ntpDiff, s.clockRate)
                        normalizedOtherTS == (srOther.RTPTimestamp + rtpDiff) % TSRange
                        offset == (srRef.RTPTimestamp - normalizedOtherTS) % TSRange
                    IN [s EXCEPT !.layerOffsets[ref][other] =
                                     IF offset = 0 THEN 1 ELSE offset]

\* mutant of updateLayerOffsetLocked: an offset of 0 is stored as it is
updateLayerOffsetLockedZero(s, ref, other) ==
    LET srRef == s.senderReports[ref].newest
        srOther == s.senderReports[other].newest
    IN IF srRef.isNil \/ srRef.NTPTimestamp = 0
             \/ srOther.isNil \/ srOther.NTPTimestamp = 0
         THEN s
       ELSE LET ntpDiff == srRef.NTPTimestamp - srOther.NTPTimestamp
            IN IF Abs(ntpDiff) > senderReportThresholdSeconds * 1000 THEN s
               ELSE LET rtpDiff == rtpDiffOf(ntpDiff, s.clockRate)
                        normalizedOtherTS == (srOther.RTPTimestamp + rtpDiff) % TSRange
                        offset == (srRef.RTPTimestamp - normalizedOtherTS) % TSRange
                    IN [s EXCEPT !.layerOffsets[ref][other] = offset]

updateLayerOffsetLocked(s, ref, other) ==
    LET srRef == s.senderReports[ref].newest
        srOther == s.senderReports[other].newest
    IN IF srRef.isNil \/ srRef.NTPTimestamp = 0
             \/ srOther.isNil \/ srOther.NTPTimestamp = 0
         THEN s
       ELSE LET ntpDiff == srRef.NTPTimestamp - srOther.NTPTimestamp
            IN IF Abs(ntpDiff) > senderReportThresholdSeconds * 1000 THEN s
               ELSE LET rtpDiff == rtpDiffOf(ntpDiff, s.clockRate)
                        normalizedOtherTS == (srOther.RTPTimestamp + rtpDiff) % TSRange
                        offset == (srRef.RTPTimestamp - normalizedOtherTS) % TSRange
                    IN [s EXCEPT !.layerOffsets[ref][other] =
                                     IF offset = 0 THEN 1 ELSE offset]

\* SetRTCPSenderReportData, the loop from layer i on
RECURSIVE fillLayerOffsets(_, _, _)
fillLayerOffsets(s, layer, i) ==
    IF i >= DefaultMaxLayerSpatial + 1 THEN s
    ELSE IF i = layer THEN fillLayerOffsets(s, layer, i + 1)
    ELSE fillLayerOffsets(
             updateLayerOffsetLocked(updateLayerOffsetLocked(s, layer, i), i, layer),
             layer, i + 1)

\* SetRTCPSenderReportData at time at
SetRTCPSenderReportData(s, layer, srFirst, srNewest, at) ==
    IF layer < 0 \/ layer >= DefaultMaxLayerSpatial + 1 THEN s
    ELSE fillLayerOffsets(
             [s EXCEPT !.senderReports[layer] =
                 [first |-> srFirst, newest |-> srNewest, lastUpdated |-> at]],
             layer, 0)

\* mutant of GetReferenceLayerRTPTimestamp: the offset is added for an SVC
\* track too
GetReferenceLayerRTPTimestampOfSVC(s, ts, layer, referenceLayer) ==
    IF layer < 0 \/ layer >= DefaultMaxLayerSpatial + 1
          \/ referenceLayer < 0 \/ referenceLayer >= DefaultMaxLayerSpatial + 1
      THEN [ts |-> 0, err |-> "invalid layer"]
    ELSE IF layer # referenceLayer /\ s.layerOffsets[referenceLayer][layer] = 0
      THEN [ts |-> 0, err |-> "offset unavailable"]
    ELSE [ts |-> (ts + s.layerOffsets[referenceLayer][layer]) % TSRange,
          err |-> "nil"]

GetReferenceLayerRTPTimestamp(s, ts, layer, referenceLayer) ==
    IF layer < 0 \/ layer >= DefaultMaxLayerSpatial + 1
          \/ referenceLayer < 0 \/ referenceLayer >= DefaultMaxLayerSpatial + 1
      THEN [ts |-> 0, err |-> "invalid layer"]
    ELSE IF s.isSVC THEN [ts |-> ts, err |-> "nil"]
    ELSE IF layer # referenceLayer /\ s.layerOffsets[referenceLayer][layer] = 0
      THEN [ts |-> 0, err |-> "offset unavailable"]
    ELSE [ts |-> (ts + s.layerOffsets[referenceLayer][layer]) % TSRange,
          err |-> "nil"]

----------------------------------------------------------------------------
(* sfu.ForwardStats                                                        *)
(* A time.Time is a number of ticks of half a millisecond.  latency is the *)
(* sequence of the samples given to LatencyAggregate.Update, each with its *)
(* arrival and its transit; closeCh is a channel, as in the OpsQueue.      *)

\* ticks of a time.Time in a millisecond
TicksPerMs == 2

\* 5 * time.Second
MaxTransit == 5 * 1000 * TicksPerMs

\* time.Time.UnixMilli
UnixMilli(t) == t \div TicksPerMs

NewForwardStats ==
    [lastLeftMs |-> 0, latency |-> <<>>, closeCh |-> 0]

\* Update, "transit < 0 || transit > 5*time.Second"
transitIgnored(arrival, left) ==
    LET transit == left - arrival
    IN transit < 0 \/ transit > MaxTransit

\* mutant of leftIsOld: a left of the millisecond of the last one is old too
leftIsOldOrSame(leftMs, lastMs) == leftMs <= lastMs

\* Update, "leftMs < lastMs"
leftIsOld(leftMs, lastMs) == leftMs < lastMs

\* Update, "s.lastLeftMs.CompareAndSwap(lastMs, leftMs)"
CompareAndSwapLastLeftMs(s, lastMs, leftMs) ==
    IF s.lastLeftMs = lastMs
      THEN [s |-> [s EXCEPT !.lastLeftMs = leftMs], swapped |-> TRUE]
      ELSE [s |-> s, swapped |-> FALSE]

\* Update, "s.latency.Update(time.Duration(arrival.UnixNano()), float64(transit))"
latencyUpdate(s, arrival, left) ==
    [s EXCEPT !.latency = Append(@, [arrival |-> arrival, transit |-> left - arrival])]

\* Stop: closing a closed channel panics
ForwardStatsStop(s) == [s EXCEPT !.closeCh = @ + 1]

----------------------------------------------------------------------------
(* Specification SpecWA: a WrapAround[uint16, uint64] fed a sequence of    *)
(* on-wire values.                                                         *)

\* on-wire values fed to the extender: around 0, around the wrap, and jumps
\* of about a quarter and a half of the range
WAVals == {0, 1, 3, 9, 10, 20000, 32778, 45000, 65530, 65533, 65535}

MaxWAUpdates == 4

NoWALast ==
    [val |-> 0, pre |-> NewWrapAround(U16Range),
     res |-> [IsRestart |-> FALSE, PreExtendedStart |-> 0,
              PreExtendedHighest |-> 0, ExtendedVal |-> 0],
     seeded |-> FALSE, prevMax |-> -1, vals |-> <<>>, exts |-> <<>>]

InitWA ==
    /\ wa = NewWrapAround(U16Range)
    /\ waLast = NoWALast
    /\ waCalls = 0

WAUpdate(val) ==
    /\ waCalls < MaxWAUpdates
    /\ LET r == WrapAroundUpdate(wa, val)
       IN /\ wa' = r.w
          /\ waLast' = [val |-> val, pre |-> wa,
                        res |-> [IsRestart |-> r.IsRestart,
                                 PreExtendedStart |-> r.PreExtendedStart,
                                 PreExtendedHighest |-> r.PreExtendedHighest,
                                 ExtendedVal |-> r.ExtendedVal],
                        seeded |-> wa.initialized,
                        prevMax |-> IF waCalls = 0 THEN -1
                                    ELSE MaxOf(waLast.prevMax, waLast.res.ExtendedVal),
                        vals |-> Append(waLast.vals, val),
                        exts |-> Append(waLast.exts, r.ExtendedVal)]
    /\ waCalls' = waCalls + 1
    /\ UNCHANGED <<rsVars, sqVars, oqVars, stVars, fsVars, avVars, dlVars>>

NextWA == \E val \in WAVals : WAUpdate(val)

----------------------------------------------------------------------------
(* Specification Spec: an RTPStats engine fed packets of one RTP stream.   *)
(* A packet is named by its index in the sender's stream, which fixes its  *)
(* sequence number, its timestamp (two packets per frame, 3000 ticks per   *)
(* frame) and whether it is padding-only; the network may lose, repeat and *)
(* reorder packets.  The sender's sequence number wraps between indexes 1  *)
(* and 2 and its timestamp between indexes 3 and 4.  Packets arrive one    *)
(* millisecond apart.                                                      *)

PktIdx == {0, 1, 2, 3, 4, 5, 8200, 30000}

PaddingIdx == {1, 4, 6}

\* the header is the sender's: index 6 is a padding packet stamped with a
\* time before the first frame of the stream
StaleIdx == {6}

FirstSN == U16Range - 2

FirstTS == TSRange - 6000

Packet(idx) ==
    [idx |-> idx,
     sn |-> (FirstSN + idx) % U16Range,
     ts |-> IF idx \in StaleIdx
              THEN (FirstTS - 3000) % TSRange
              ELSE (FirstTS + 3000 * (idx \div 2)) % TSRange,
     marker |-> idx % 2 = 1 /\ idx \notin PaddingIdx,
     payloadSize |-> IF idx \in PaddingIdx THEN 0 ELSE 1000,
     paddingSize |-> IF idx \in PaddingIdx THEN 255 ELSE 0]

MaxUpdates == 5

NoRSLast ==
    [op |-> "none", pkt |-> Packet(0), pre |-> NewRTPStats(FALSE),
     flowState |-> ZeroFlowState, resSN |-> ZeroResult, resTS |-> ZeroResult,
     recorded |-> FALSE, seen |-> {}, srData |-> <<>>]

InitRS ==
    /\ rs = NewRTPStats(FALSE)
    /\ rsLast = NoRSLast
    /\ rsSeen = {}
    /\ rsCalls = 0
    /\ now = 1

Update(idx) ==
    /\ rsCalls < MaxUpdates
    /\ LET u == RTPStatsUpdate(rs, Packet(idx), now)
       IN /\ rs' = u.r
          /\ rsLast' = [op |-> "Update", pkt |-> Packet(idx), pre |-> rs,
                        flowState |-> u.flowState, resSN |-> u.resSN,
                        resTS |-> u.resTS, recorded |-> u.recorded,
                        seen |-> rsSeen, srData |-> <<>>]
          /\ rsSeen' = IF u.recorded THEN rsSeen \cup {idx} ELSE rsSeen
    /\ rsCalls' = rsCalls + 1
    /\ now' = now + 1
    /\ UNCHANGED <<waVars, sqVars, oqVars, stVars, fsVars, avVars, dlVars>>

Next == \E idx \in PktIdx : Update(idx)

----------------------------------------------------------------------------
(* Specification SpecPad: the stream above with a sender that also sends   *)
(* the padding packet of index 6, whose timestamp does not follow its      *)
(* sequence number.                                                        *)

PadPktIdx == {0, 1, 2, 4, 5, 6, 8200}

NextPad == \E idx \in PadPktIdx : Update(idx)

----------------------------------------------------------------------------
(* Specification SpecLife: the life of an RTPStats engine.  Every call of  *)
(* the engine that changes it may be made at any time, also after Stop;    *)
(* one millisecond passes between two calls.                               *)

LifePktIdx == {0, 2, 3}

MaxLifeCalls == 4

\* receiver reports: a highest sequence number before and after the start
LifeRRs ==
    {[LastSequenceNumber |-> 3, TotalLost |-> 1, Jitter |-> 5],
     [LastSequenceNumber |-> 65540, TotalLost |-> 2, Jitter |-> 7]}

LifeRttResults == {[ok |-> FALSE, rtt |-> 0], [ok |-> TRUE, rtt |-> 30]}

\* sender reports of the publisher: none (nil), or one taken at the second
\* frame of the stream
LifeSRs ==
    {<<>>,
     <<[RTPTimestamp |-> Packet(2).ts, RTPTimestampExt |-> 0, NTPTimestamp |-> 2,
        PacketCount |-> 2, PacketCountExt |-> 0, PaddingOnlyDrops |-> 0,
        At |-> 2]>>}

LifeClockRates == {0, ClockRate}

\* a call op that leaves the engine as r2
LifeCall(op, r2) ==
    /\ rsCalls < MaxLifeCalls
    /\ rs' = r2
    /\ rsLast' = [NoRSLast EXCEPT !.op = op, !.pre = rs, !.seen = rsSeen]
    /\ rsCalls' = rsCalls + 1
    /\ now' = now + 1
    /\ UNCHANGED <<rsSeen, waVars, sqVars, oqVars, stVars, fsVars, avVars, dlVars>>

LifeUpdate(idx) == rsCalls < MaxLifeCalls /\ Update(idx)

Stop == LifeCall("Stop", RTPStatsStop(rs, now))

NewSnapshotId == LifeCall("NewSnapshotId", RTPStatsNewSnapshotId(rs, now).r)

ResyncOnNextPacket(b) ==
    LifeCall("ResyncOnNextPacket", RTPStatsResyncOnNextPacket(rs, b))

UpdateNack == LifeCall("UpdateNack", RTPStatsUpdateNack(rs, 1))

UpdatePli == LifeCall("UpdatePli", RTPStatsUpdatePli(rs, 1))

UpdateFir == LifeCall("UpdateFir", RTPStatsUpdateFir(rs, 1))

UpdateKeyFrame == LifeCall("UpdateKeyFrame", RTPStatsUpdateKeyFrame(rs, 1, now))

UpdateRtt == LifeCall("UpdateRtt", RTPStatsUpdateRtt(rs, 25))

UpdateFromReceiverReport(rr, rttRes) ==
    LifeCall("UpdateFromReceiverReport",
             RTPStatsUpdateFromReceiverReport(rs, rr, rttRes, now).r)

SetRtcpSenderReportData(srData) ==
    /\ rsCalls < MaxLifeCalls
    /\ rs' = RTPStatsSetRtcpSenderReportData(rs, srData, now)
    /\ rsLast' = [NoRSLast EXCEPT !.op = "SetRtcpSenderReportData", !.pre = rs,
                                  !.seen = rsSeen, !.srData = srData]
    /\ rsCalls' = rsCalls + 1
    /\ now' = now + 1
    /\ UNCHANGED <<rsSeen, waVars, sqVars, oqVars, stVars, fsVars, avVars, dlVars>>

GetRtcpSenderReport(calculatedClockRate) ==
    LifeCall("GetRtcpSenderReport",
             RTPStatsGetRtcpSenderReport(rs, 1, calculatedClockRate, now).r)

NextLife ==
    \/ \E idx \in LifePktIdx : LifeUpdate(idx)
    \/ Stop
    \/ NewSnapshotId
    \/ \E b \in BOOLEAN : ResyncOnNextPacket(b)
    \/ UpdateNack
    \/ UpdatePli
    \/ UpdateFir
    \/ UpdateKeyFrame
    \/ UpdateRtt
    \/ \E rr \in LifeRRs, rttRes \in LifeRttResults :
          UpdateFromReceiverReport(rr, rttRes)
    \/ \E srData \in LifeSRs : SetRtcpSenderReportData(srData)
    \/ \E rate \in LifeClockRates : GetRtcpSenderReport(rate)

----------------------------------------------------------------------------
(* Specification SpecDelta: an RTPStats engine whose deltas are read while *)
(* packets arrive.  One goroutine calls NewSnapshotId and DeltaInfo; a     *)
(* DeltaInfo is two steps, getAndResetSnapshot under r.lock and then the   *)
(* walk under the read lock, and packets may arrive in between.  The       *)
(* packets come before and after the first one and 30000 sequence numbers  *)
(* apart.                                                                  *)

DLPktIdx == {5, 30000, 60000, 90000}

MaxDLUpdates == 4

MaxDLIds == 2

MaxDLDeltas == 2

DLIdle == [pc |-> "idle", id |-> 0, ok |-> FALSE, start |-> 0,
           then |-> NewSnapshot(0, 0), now |-> NewSnapshot(0, 0)]

InitDL ==
    /\ dl = DLIdle
    /\ dlLog = [ids |-> <<>>, deltas |-> <<>>]

DLUpdate(idx) ==
    /\ rsCalls < MaxDLUpdates
    /\ Update(idx)

DLNewSnapshotId ==
    /\ dl.pc = "idle"
    /\ Len(dlLog.ids) < MaxDLIds
    /\ LET n == RTPStatsNewSnapshotId(rs, now)
       IN /\ rs' = n.r
          /\ dlLog' = [dlLog EXCEPT !.ids = Append(@, n.id)]
    /\ UNCHANGED <<dl, rsLast, rsSeen, rsCalls, now, waVars, sqVars, oqVars,
                   stVars, fsVars, avVars>>

\* DeltaInfo(id), from r.lock.Lock() to r.lock.Unlock()
DLDeltaInfoReset(id) ==
    /\ dl.pc = "idle"
    /\ Len(dlLog.deltas) < MaxDLDeltas
    /\ LET g == getAndResetSnapshot(rs, id, FALSE, now)
       IN /\ rs' = g.r
          /\ dl' = [pc |-> "walk", id |-> id, ok |-> g.ok,
                    start |-> GetExtendedStart(rs.sequenceNumber),
                    then |-> g.then, now |-> g.now]
    /\ UNCHANGED <<dlLog, rsLast, rsSeen, rsCalls, now, waVars, sqVars, oqVars,
                   stVars, fsVars, avVars>>

\* DeltaInfo, from "if now == nil || then == nil" to the return
DLDeltaInfoWalk ==
    /\ dl.pc = "walk"
    /\ dlLog' = [dlLog EXCEPT !.deltas =
                    Append(@, [id |-> dl.id, ok |-> dl.ok,
                               extStart |-> dl.then.extStartSN,
                               extEnd |-> dl.now.extStartSN,
                               start |-> dl.start,
                               info |-> DeltaInfoOf(rs, dl.ok, dl.then, dl.now)])]
    /\ dl' = DLIdle
    /\ UNCHANGED <<rsVars, waVars, sqVars, oqVars, stVars, fsVars, avVars>>

NextDelta ==
    \/ \E idx \in DLPktIdx : DLUpdate(idx)
    \/ DLNewSnapshotId
    \/ \E i \in 1..Len(dlLog.ids) : DLDeltaInfoReset(dlLog.ids[i])
    \/ DLDeltaInfoWalk

----------------------------------------------------------------------------
(* Specification SpecGap: the stream of Spec with a sender whose packets   *)
(* are one, two and about a hundred sequence numbers apart.                *)

GapPktIdx == {0, 1, 3, 103, 104, 105}

MaxGapUpdates == 4

GapUpdate(idx) ==
    /\ rsCalls < MaxGapUpdates
    /\ Update(idx)

NextGap == \E idx \in GapPktIdx : GapUpdate(idx)

----------------------------------------------------------------------------
(* Specification SpecRSR: the sender reports of the publisher handed to an *)
(* RTPStats engine, before and after the first packet.  The reports carry  *)
(* RTP timestamps before and after the wrap of the 32-bit timestamp, in    *)
(* and out of the order of their NTP times.                                *)

RSRPktIdx == {0, 2}

RSRTimestamps == {TSRange - 1000, 2000, 5000}

RSRNtpTimes == {2, 5}

RSRReports ==
    {<<>>} \cup
    {<<[RTPTimestamp |-> ts, RTPTimestampExt |-> 0, NTPTimestamp |-> ntp,
        PacketCount |-> 2, PacketCountExt |-> 0, PaddingOnlyDrops |-> 0,
        At |-> ntp]>> : ts \in RSRTimestamps, ntp \in RSRNtpTimes}

NextRSR ==
    \/ \E idx \in RSRPktIdx : LifeUpdate(idx)
    \/ \E srData \in RSRReports : SetRtcpSenderReportData(srData)

----------------------------------------------------------------------------
(* Specification SpecSeq: a sequencer of a down track.  Packets and        *)
(* padding are pushed with target sequence numbers around the 16-bit wrap, *)
(* the round trip time is set, and NACKed sequence numbers are looked up;  *)
(* time passes between a call of getPacketsMeta and the call before it.    *)

SeqMaxTrack == 2

SeqMaxPadding == 1

SeqSNs == {65535, 0, 1}

SeqRtts == {0, 20}

\* milliseconds since the previous call
SeqDelays == {40, 60}

\* target sequence numbers of padding packets
SeqPaddingSNs == {0, 1}

SeqRequests == {<<65535>>, <<0>>, <<0, 0>>, <<1, 65535>>}

MaxSeqPushes == 3

MaxSeqGets == 4

\* the number of metas of target sequence number sn in a result
SeqCount(meta, sn) ==
    Cardinality({i \in 1 .. Len(meta) : meta[i].targetSeqNo = sn})

\* the publisher's sequence number of the packet sent as offSn
SeqSourceSN(offSn) == (offSn + 7) % U16Range

\* the spatial layer of the packet sent as offSn
SeqLayer(offSn) == (offSn + 1) % 3

NoSeqLast ==
    [op |-> "none", seqNo |-> <<>>, pre |-> newSequencer(SeqMaxTrack, SeqMaxPadding),
     refTime |-> 0, meta |-> <<>>]

\* the target sequence numbers of the calls
SeqAllSNs == SeqSNs \cup SeqPaddingSNs

\* getSlot(offSn): the sequence numbers between the head and offSn, whose
\* slots an in-order call sets to nil
SeqSkipped(s, offSn) ==
    LET diff == SubMod(offSn, s.headSN, U16Range)
    IN IF ~s.init \/ diff = 0 \/ diff > U16Range \div 2 THEN {}
       ELSE {(s.headSN + k) % U16Range : k \in 1 .. (diff - 1)}

InitSeq ==
    /\ sq = newSequencer(SeqMaxTrack, SeqMaxPadding)
    /\ sqLast = NoSeqLast
    /\ sqNow = 0
    /\ sqPushes = 0
    /\ sqGets = 0
    /\ sqReturned = [sn \in SeqAllSNs |-> 0]
    /\ sqRefused = {}
    /\ sqPushed = <<>>

SeqPush(offSn) ==
    /\ sqPushes < MaxSeqPushes
    /\ sq' = push(sq, SeqSourceSN(offSn), offSn, 10 * offSn, offSn % 2 = 1,
                  SeqLayer(offSn),
                  <<offSn % 256>>, <<>>, sqNow)
    /\ sqLast' = [NoSeqLast EXCEPT !.op = "push", !.seqNo = <<offSn>>, !.pre = sq,
                                   !.refTime = sqNow]
    /\ sqPushes' = sqPushes + 1
    /\ sqRefused' = IF getSlot(sq, offSn).isValid
                      THEN (sqRefused \cup SeqSkipped(sq, offSn)) \ {offSn}
                      ELSE sqRefused
    /\ sqPushed' = IF getSlot(sq, offSn).isValid
                     THEN Append(sqPushed, offSn) ELSE sqPushed
    /\ UNCHANGED <<sqNow, sqGets, sqReturned, waVars, rsVars, oqVars, stVars, fsVars, avVars, dlVars>>

SeqPushPadding(offSn) ==
    /\ sqPushes < MaxSeqPushes
    /\ sq' = pushPadding(sq, offSn)
    /\ sqLast' = [NoSeqLast EXCEPT !.op = "pushPadding", !.seqNo = <<offSn>>,
                                   !.pre = sq, !.refTime = sqNow]
    /\ sqPushes' = sqPushes + 1
    /\ sqRefused' = IF getSlot(sq, offSn).isValid
                      THEN sqRefused \cup SeqSkipped(sq, offSn) \cup {offSn}
                      ELSE sqRefused
    /\ UNCHANGED <<sqNow, sqGets, sqReturned, sqPushed, waVars, rsVars, oqVars, stVars, fsVars, avVars, dlVars>>

SeqSetRTT(rtt) ==
    /\ sq' = setRTT(sq, rtt)
    /\ sqLast' = [NoSeqLast EXCEPT !.op = "setRTT"]
    /\ UNCHANGED <<sqNow, sqPushes, sqGets, sqReturned, sqRefused, sqPushed, waVars, rsVars, oqVars, stVars, fsVars, avVars, dlVars>>

SeqGetPacketsMeta(delay, seqNo) ==
    /\ sqGets < MaxSeqGets
    /\ LET g == getPacketsMeta(sq, seqNo, sqNow + delay)
       IN /\ sq' = g.s
          /\ sqLast' = [op |-> "getPacketsMeta", seqNo |-> seqNo, pre |-> sq,
                        refTime |-> sqNow + delay, meta |-> g.meta]
          /\ sqReturned' = [sn \in SeqAllSNs |->
                                sqReturned[sn] + SeqCount(g.meta, sn)]
    /\ sqNow' = sqNow + delay
    /\ sqGets' = sqGets + 1
    /\ UNCHANGED <<sqPushes, sqRefused, sqPushed, waVars, rsVars, oqVars, stVars, fsVars, avVars, dlVars>>

NextSeq ==
    \/ \E offSn \in SeqSNs : SeqPush(offSn)
    \/ \E offSn \in SeqPaddingSNs : SeqPushPadding(offSn)
    \/ \E rtt \in SeqRtts : SeqSetRTT(rtt)
    \/ \E delay \in SeqDelays, seqNo \in SeqRequests : SeqGetPacketsMeta(delay, seqNo)

----------------------------------------------------------------------------
(* Specification SpecRing: the ring of the sequencer.  Target sequence     *)
(* numbers up to four apart around the 16-bit wrap are pushed in and out   *)
(* of order, with padding in between, and each is looked up long enough    *)
(* after the call before for the pacing to let it through.                 *)

RingSNs == {65535, 0, 1, 3}

RingPaddingSNs == {0, 1}

RingDelay == 2 * ignoreRetransmission

NextRing ==
    \/ \E offSn \in RingSNs : SeqPush(offSn)
    \/ \E offSn \in RingPaddingSNs : SeqPushPadding(offSn)
    \/ \E sn \in RingSNs : SeqGetPacketsMeta(RingDelay, <<sn>>)

----------------------------------------------------------------------------
(* Specification SpecMeta: the ring of SpecRing with a forwarder that may  *)
(* send a target sequence number again: the n-th packet stored carries a   *)
(* source sequence number, a timestamp, a marker and a layer of its own.   *)

MetaRequests == {<<sn>> : sn \in RingSNs} \cup {<<1, 65535>>, <<0, 3>>}

\* what the forwarder pushes for offSn when n - 1 packets were stored before
MetaPacket(offSn, n) ==
    [sourceSeqNo |-> (offSn + 100 * n) % U16Range, targetSeqNo |-> offSn,
     timestamp |-> 10 * offSn + n, marker |-> n % 2 = 1, layer |-> n % 3]

SeqPushNth(offSn) ==
    /\ sqPushes < MaxSeqPushes
    /\ LET pkt == MetaPacket(offSn, Len(sqPushed) + 1)
       IN sq' = push(sq, pkt.sourceSeqNo, offSn, pkt.timestamp, pkt.marker,
                     pkt.layer, <<offSn % 256>>, <<>>, sqNow)
    /\ sqLast' = [NoSeqLast EXCEPT !.op = "push", !.seqNo = <<offSn>>, !.pre = sq,
                                   !.refTime = sqNow]
    /\ sqPushes' = sqPushes + 1
    /\ sqRefused' = IF getSlot(sq, offSn).isValid
                      THEN (sqRefused \cup SeqSkipped(sq, offSn)) \ {offSn}
                      ELSE sqRefused
    /\ sqPushed' = IF getSlot(sq, offSn).isValid
                     THEN Append(sqPushed, offSn) ELSE sqPushed
    /\ UNCHANGED <<sqNow, sqGets, sqReturned, waVars, rsVars, oqVars, stVars, fsVars, avVars, dlVars>>

NextMeta ==
    \/ \E offSn \in RingSNs : SeqPushNth(offSn)
    \/ \E offSn \in RingPaddingSNs : SeqPushPadding(offSn)
    \/ \E seqNo \in MetaRequests : SeqGetPacketsMeta(RingDelay, seqNo)

----------------------------------------------------------------------------
(* Specification SpecOQ: an OpsQueue with callers of Start, Stop and       *)
(* Enqueue running concurrently with the goroutines of process.  A step is *)
(* a critical section of oq.lock, a channel operation, or the beginning or *)
(* the return of a closure.                                                *)

MaxOQStarts == 2

MaxOQStops == 2

MaxOQEnqueues == 3

OQProcs == 1 .. MaxOQStarts

NoOQLog ==
    [starts |-> 0, stops |-> 0, enqueues |-> 0, accepted |-> <<>>,
     acceptedAtStop |-> <<>>, queuedAtStop |-> <<>>, begun |-> <<>>, finished |-> <<>>,
     stopReturns |-> {}, exited |-> FALSE, queuedAtExit |-> <<>>,
     begunAtExit |-> <<>>, stoppedFirst |-> FALSE]

\* a queue built with FlushOnStop in flushOnStop
InitOQWith(flushOnStop) ==
    /\ oq \in {NewOpsQueue(f) : f \in flushOnStop}
    /\ oqProc = [p \in OQProcs |-> [pc |-> "none", op |-> 0]]
    /\ oqSpawn = 0
    /\ oqLog = NoOQLog

InitOQ == InitOQWith({TRUE})

\* Start, the critical section
OQStart ==
    /\ oqLog.starts < MaxOQStarts
    /\ LET r == OpsQueueStart(oq)
       IN /\ oq' = r.q
          /\ oqSpawn' = IF r.go THEN oqSpawn + 1 ELSE oqSpawn
    /\ oqLog' = [oqLog EXCEPT !.starts = @ + 1,
                              !.stoppedFirst = @ \/ (oq.isStopped /\ ~oq.isStarted)]
    /\ UNCHANGED <<oqProc, waVars, rsVars, sqVars, stVars, fsVars, avVars, dlVars>>

\* Start, "go oq.process()"
OQGo ==
    /\ oqSpawn > 0
    /\ \E p \in OQProcs :
          /\ oqProc[p].pc = "none"
          /\ \A o \in OQProcs : o < p => oqProc[o].pc # "none"
          /\ oqProc' = [oqProc EXCEPT ![p].pc = "receive"]
    /\ oqSpawn' = oqSpawn - 1
    /\ UNCHANGED <<oq, oqLog, waVars, rsVars, sqVars, stVars, fsVars, avVars, dlVars>>

OQStop ==
    /\ oqLog.stops < MaxOQStops
    /\ LET r == OpsQueueStop(oq)
       IN /\ oq' = r.q
          /\ oqLog' = [oqLog EXCEPT !.stops = @ + 1,
                                    !.stopReturns = @ \cup {r.ret},
                                    !.acceptedAtStop =
                                        IF oq.isStopped THEN @ ELSE oqLog.accepted,
                                    !.queuedAtStop =
                                        IF oq.isStopped THEN @ ELSE oq.ops]
    /\ UNCHANGED <<oqProc, oqSpawn, waVars, rsVars, sqVars, stVars, fsVars, avVars, dlVars>>

OQEnqueue ==
    /\ oqLog.enqueues < MaxOQEnqueues
    /\ oq' = OpsQueueEnqueue(oq, oqLog.enqueues + 1)
    /\ oqLog' = [oqLog EXCEPT !.enqueues = @ + 1,
                              !.accepted = IF oq.isStopped THEN @
                                           ELSE Append(@, oqLog.enqueues + 1)]
    /\ UNCHANGED <<oqProc, oqSpawn, waVars, rsVars, sqVars, stVars, fsVars, avVars, dlVars>>

\* process, "<-oq.wake"
OQReceive(p) ==
    /\ oqProc[p].pc = "receive"
    /\ CanReceiveWake(oq)
    /\ oq' = ReceiveWake(oq)
    /\ oqProc' = [oqProc EXCEPT ![p].pc = "locked"]
    /\ UNCHANGED <<oqSpawn, oqLog, waVars, rsVars, sqVars, stVars, fsVars, avVars, dlVars>>

\* process, the critical section of the inner loop; a return closes doneChan
OQLocked(p) ==
    /\ oqProc[p].pc = "locked"
    /\ LET r == processLocked(oq)
       IN /\ oq' = IF r.next = "return" THEN CloseDoneChan(r.q) ELSE r.q
          /\ oqProc' = [oqProc EXCEPT
                           ![p] = [pc |-> CASE r.next = "return" -> "returned"
                                            [] r.next = "break" -> "receive"
                                            [] OTHER -> "popped",
                                   op |-> r.op]]
          /\ oqLog' = IF r.next = "return" /\ ~oqLog.exited
                        THEN [oqLog EXCEPT !.exited = TRUE,
                                           !.queuedAtExit = oq.ops,
                                           !.begunAtExit = oqLog.begun]
                        ELSE oqLog
    /\ UNCHANGED <<oqSpawn, waVars, rsVars, sqVars, stVars, fsVars, avVars, dlVars>>

\* process, "op()": the closure begins
OQBegin(p) ==
    /\ oqProc[p].pc = "popped"
    /\ oqProc' = [oqProc EXCEPT ![p].pc = "op"]
    /\ oqLog' = [oqLog EXCEPT !.begun = Append(@, oqProc[p].op)]
    /\ UNCHANGED <<oq, oqSpawn, waVars, rsVars, sqVars, stVars, fsVars, avVars, dlVars>>

\* process, "op()": the closure returns
OQReturn(p) ==
    /\ oqProc[p].pc = "op"
    /\ oqProc' = [oqProc EXCEPT ![p] = [pc |-> "locked", op |-> 0]]
    /\ oqLog' = [oqLog EXCEPT !.finished = Append(@, oqProc[p].op)]
    /\ UNCHANGED <<oq, oqSpawn, waVars, rsVars, sqVars, stVars, fsVars, avVars, dlVars>>

OQProcess == \E p \in OQProcs : OQReceive(p) \/ OQLocked(p) \/ OQBegin(p) \/ OQReturn(p)

NextOQ ==
    \/ OQStart
    \/ OQGo
    \/ OQStop
    \/ OQEnqueue
    \/ \E p \in OQProcs : OQReceive(p)
    \/ \E p \in OQProcs : OQLocked(p)
    \/ \E p \in OQProcs : OQBegin(p)
    \/ \E p \in OQProcs : OQReturn(p)

----------------------------------------------------------------------------
(* Specification SpecST: a StreamTrackerManager of a video track.  The     *)
(* receiver adds and removes trackers, pauses, sets the expected layer and *)
(* asks for the distance; the trackers report their status; the bitrate    *)
(* reporter ticks.  A call is a step; a tick of the reporter is two steps, *)
(* GetLayeredBitrate and then updateMaxTemporalLayerSeen with the          *)
(* callbacks.                                                              *)

MaxSTCalls == 3

MaxSTTicks == 2

\* the spatial layers of the track info
STTrackInfos == {{}, {0, 1}, {0, 1, 2}}

\* what a tracker answers to BitrateTemporalCumulative
STBitrateVecs ==
    {[t \in TemporalLayers |-> IF t <= top THEN t + 1 ELSE 0] : top \in {-1, 0, 1, 3}}

STBitrates == [SpatialLayers -> STBitrateVecs]

\* the answers of the trackers that getLayeredBitrateLocked asks: of a layer
\* that has no tracker or is not available, no answer is read
STAsked(s, tb) ==
    \A l \in SpatialLayers :
        ~(s.trackers[l] /\ hasSpatialLayerLocked(s, l)) => tb[l] = ZeroBitrates[l]

STStatuses == {"Active", "Stopped"}

NoSTLast(s) ==
    [op |-> "none", layer |-> 0, pre |-> s, calls |-> <<>>, tb |-> ZeroBitrates,
     result |-> [num |-> 0, den |-> 1],
     ts |-> 0, referenceLayer |-> 0, out |-> [ts |-> 0, err |-> "nil"],
     prev |-> 0, reset |-> {}]

\* a manager built for a track info in trackInfos, with isSVC in isSVC
InitSTWith(trackInfos, isSVC, clockRates) ==
    /\ st \in {NewStreamTrackerManager(l, svc, cr) :
                  l \in trackInfos, svc \in isSVC, cr \in clockRates}
    /\ stRep = [pc |-> "select", al |-> <<>>, brs |-> ZeroBitrates]
    /\ stHooked = {}
    /\ stLast = NoSTLast(st)
    /\ stCalls = [calls |-> 0, ticks |-> 0]

InitST == InitSTWith({{0, 1, 2}}, {FALSE}, {ClockRate})

\* a call op on the manager that leaves it as s2 after the callbacks calls
STCall(op, layer, s2, calls) ==
    /\ stCalls.calls < MaxSTCalls
    /\ st' = s2
    /\ stLast' = [NoSTLast(st) EXCEPT !.op = op, !.layer = layer, !.calls = calls]
    /\ stCalls' = [stCalls EXCEPT !.calls = @ + 1]
    /\ UNCHANGED <<stRep, waVars, rsVars, sqVars, oqVars, fsVars, avVars, dlVars>>

STSetListener ==
    /\ ~st.listener
    /\ STCall("SetListener", 0, SetListener(st), <<>>)
    /\ UNCHANGED stHooked

STAddTracker(layer) ==
    /\ LET a == AddTracker(st, layer) IN STCall("AddTracker", layer, a.s, a.calls)
    /\ stHooked' = stHooked \cup {layer}

STAddDependencyDescriptorTrackers ==
    /\ LET a == AddDependencyDescriptorTrackers(st)
       IN /\ STCall("AddDependencyDescriptorTrackers", 0, a.s, a.calls)
          /\ stHooked' = IF st.ddTracker THEN stHooked ELSE SpatialLayers

STRemoveTracker(layer) ==
    /\ STCall("RemoveTracker", layer, RemoveTracker(st, layer), <<>>)
    /\ UNCHANGED stHooked

STRemoveAllTrackers ==
    /\ STCall("RemoveAllTrackers", 0, RemoveAllTrackers(st), <<>>)
    /\ UNCHANGED stHooked

STSetPaused(paused) ==
    /\ STCall("SetPaused", 0, SetPaused(st, paused), <<>>)
    /\ UNCHANGED stHooked

STSetMaxExpectedSpatialLayer(layer) ==
    /\ stCalls.calls < MaxSTCalls
    /\ LET m == SetMaxExpectedSpatialLayer(st, layer)
       IN /\ st' = m.s
          /\ stLast' = [NoSTLast(st) EXCEPT !.op = "SetMaxExpectedSpatialLayer",
                                            !.layer = layer, !.prev = m.prev,
                                            !.reset = m.reset]
    /\ stCalls' = [stCalls EXCEPT !.calls = @ + 1]
    /\ UNCHANGED <<stRep, stHooked, waVars, rsVars, sqVars, oqVars, fsVars, avVars, dlVars>>

STClose ==
    /\ ~st.closed
    /\ STCall("Close", 0, Close(st), <<>>)
    /\ UNCHANGED stHooked

\* a tracker that was given the callback reports a status
STOnStatusChanged(layer, status) ==
    /\ layer \in stHooked
    /\ LET a == OnStatusChanged(st, layer, status)
       IN STCall(IF status = "Stopped" THEN "removeAvailableLayer"
                 ELSE "addAvailableLayer", layer, a.s, a.calls)
    /\ UNCHANGED stHooked

STDistanceToDesired(tb) ==
    /\ stCalls.calls < MaxSTCalls
    /\ STAsked(st, tb)
    /\ stLast' = [NoSTLast(st) EXCEPT !.op = "DistanceToDesired", !.tb = tb,
                                      !.result = DistanceToDesired(st, tb)]
    /\ stCalls' = [stCalls EXCEPT !.calls = @ + 1]
    /\ UNCHANGED <<st, stRep, stHooked, waVars, rsVars, sqVars, oqVars, fsVars, avVars, dlVars>>

\* bitrateReporter, "case <-ticker.C": GetLayeredBitrate
STReporterTick(tb) ==
    /\ stRep.pc = "select"
    /\ stCalls.ticks < MaxSTTicks
    /\ STAsked(st, tb)
    /\ LET g == getLayeredBitrateLocked(st, tb)
       IN stRep' = [pc |-> "update", al |-> g.al, brs |-> g.brs]
    /\ stLast' = [NoSTLast(st) EXCEPT !.op = "GetLayeredBitrate", !.tb = tb]
    /\ stCalls' = [stCalls EXCEPT !.ticks = @ + 1]
    /\ UNCHANGED <<st, stHooked, waVars, rsVars, sqVars, oqVars, fsVars, avVars, dlVars>>

\* bitrateReporter: updateMaxTemporalLayerSeen(brs), then OnBitrateReport
STReporterUpdate ==
    /\ stRep.pc = "update"
    /\ LET u == updateMaxTemporalLayerSeen(st, stRep.brs)
       IN /\ st' = u.s
          /\ stLast' = [NoSTLast(st) EXCEPT
                           !.op = "updateMaxTemporalLayerSeen",
                           !.calls = u.calls \o
                               Notify(u.s, <<[cb |-> "OnBitrateReport", arg |-> 0]>>)]
    /\ stRep' = [stRep EXCEPT !.pc = "select"]
    /\ UNCHANGED <<stHooked, stCalls, waVars, rsVars, sqVars, oqVars, fsVars, avVars, dlVars>>

\* bitrateReporter, "case <-s.closed.Watch()"
STReporterReturn ==
    /\ stRep.pc = "select"
    /\ st.closed
    /\ stRep' = [stRep EXCEPT !.pc = "returned"]
    /\ stLast' = [NoSTLast(st) EXCEPT !.op = "bitrateReporter"]
    /\ UNCHANGED <<st, stHooked, stCalls, waVars, rsVars, sqVars, oqVars, fsVars, avVars, dlVars>>

NextST ==
    \/ STSetListener
    \/ \E layer \in SpatialLayers : STAddTracker(layer)
    \/ STAddDependencyDescriptorTrackers
    \/ \E layer \in SpatialLayers : STRemoveTracker(layer)
    \/ STRemoveAllTrackers
    \/ \E paused \in BOOLEAN : STSetPaused(paused)
    \/ \E layer \in SpatialLayers \cup {InvalidLayerSpatial} :
          STSetMaxExpectedSpatialLayer(layer)
    \/ STClose
    \/ \E layer \in SpatialLayers, status \in STStatuses : STOnStatusChanged(layer, status)
    \/ \E tb \in STBitrates : STDistanceToDesired(tb)
    \/ \E tb \in STBitrates : STReporterTick(tb)
    \/ STReporterUpdate
    \/ STReporterReturn

----------------------------------------------------------------------------
(* Specification SpecSR: the sender reports of a StreamTrackerManager.     *)
(* The receiver hands the newest sender report of a layer to the manager,  *)
(* down tracks ask for the timestamp of a layer in the timeline of a       *)
(* reference layer, and the manager may be closed at any time.             *)

MaxSRCalls == 3

\* the layers given: the spatial layers and one below and one above them
SRLayers == (InvalidLayerSpatial .. DefaultMaxLayerSpatial + 1)

\* the sender reports given: 200 ms, 1 ms, 60 s and more than 60 s apart,
\* with RTP timestamps that make an offset of 0, and one with the zero
\* NtpTime
SRReports ==
    {NilSenderReport,
     SenderReport(9, 0),
     SenderReport(0, 100000),
     SenderReport(5, 100001),
     SenderReport(18000, 100200),
     SenderReport(7, 160000),
     SenderReport(7, 160201)}

SRTimestamps == {100, TSRange - 1}

\* 44100 is not a multiple of 1000: a difference of 1 ms is 44.1 ticks
SRClockRates == {ClockRate, 44100}

SRCall(op, layer, s2) ==
    /\ stCalls.calls < MaxSRCalls
    /\ st' = s2
    /\ stCalls' = [stCalls EXCEPT !.calls = @ + 1]
    /\ UNCHANGED <<stRep, stHooked, waVars, rsVars, sqVars, oqVars, fsVars, avVars, dlVars>>

\* the receiver passes the first and the newest sender report of the layer
SRSetRTCPSenderReportData(layer, srNewest) ==
    LET known == IF layer \in SpatialLayers
                   THEN st.senderReports[layer].first ELSE NilSenderReport
        srFirst == IF known.isNil THEN srNewest ELSE known
    IN /\ SRCall("SetRTCPSenderReportData", layer,
                 SetRTCPSenderReportData(st, layer, srFirst, srNewest,
                                         stCalls.calls + 1))
       /\ stLast' = [NoSTLast(st) EXCEPT !.op = "SetRTCPSenderReportData",
                                         !.layer = layer]

SRGetReferenceLayerRTPTimestamp(ts, layer, referenceLayer) ==
    /\ SRCall("GetReferenceLayerRTPTimestamp", layer, st)
    /\ stLast' = [NoSTLast(st) EXCEPT
                     !.op = "GetReferenceLayerRTPTimestamp", !.layer = layer,
                     !.ts = ts, !.referenceLayer = referenceLayer,
                     !.out = GetReferenceLayerRTPTimestamp(st, ts, layer,
                                                           referenceLayer)]

SRClose ==
    /\ SRCall("Close", 0, Close(st))
    /\ stLast' = [NoSTLast(st) EXCEPT !.op = "Close"]

NextSR ==
    \/ \E layer \in SRLayers, sr \in SRReports : SRSetRTCPSenderReportData(layer, sr)
    \/ \E ts \in SRTimestamps, layer \in SRLayers, ref \in SRLayers :
          SRGetReferenceLayerRTPTimestamp(ts, layer, ref)
    \/ SRClose

----------------------------------------------------------------------------
(* Specification SpecFS: a ForwardStats with goroutines calling Update     *)
(* concurrently, a caller of Stop and the goroutine of report.  A step of  *)
(* Update is the load of lastLeftMs with the tests before and after it,    *)
(* the compare-and-swap, or the critical section of s.lock.                *)

MaxFSUpdates == 3

MaxFSStops == 2

MaxFSReports == 1

FSProcs == {1, 2}

\* the times a packet left at: two in one millisecond, and the next two
\* milliseconds
FSLefts == {20000, 20001, 20002, 20004}

\* left - arrival: negative, none, short, 5 s, above 5 s
FSTransits == {-1, 0, 3, MaxTransit, MaxTransit + 1}

FSIdle == [pc |-> "idle", arrival |-> 0, left |-> 0, leftMs |-> 0, lastMs |-> 0]

InitFS ==
    /\ fs = NewForwardStats
    /\ fsProc = [p \in FSProcs |-> FSIdle]
    /\ fsLog = [updates |-> 0, stops |-> 0, reports |-> 0, report |-> "select",
                ignored |-> {}]

\* Update up to the load of lastLeftMs and the test of leftMs against it
FSUpdateLoad(p, arrival, left) ==
    /\ fsProc[p].pc = "idle"
    /\ fsLog.updates < MaxFSUpdates
    /\ IF transitIgnored(arrival, left)
         THEN /\ fsProc' = fsProc
              /\ fsLog' = [fsLog EXCEPT !.updates = @ + 1,
                                        !.ignored = @ \cup {left - arrival}]
         ELSE LET leftMs == UnixMilli(left)
                  lastMs == fs.lastLeftMs
              IN /\ fsProc' = [fsProc EXCEPT ![p] =
                        IF leftIsOld(leftMs, lastMs) THEN FSIdle
                        ELSE [pc |-> "cas", arrival |-> arrival, left |-> left,
                              leftMs |-> leftMs, lastMs |-> lastMs]]
                 /\ fsLog' = [fsLog EXCEPT !.updates = @ + 1]
    /\ UNCHANGED <<fs, waVars, rsVars, sqVars, oqVars, stVars, avVars, dlVars>>

\* Update, the compare-and-swap
FSUpdateSwap(p) ==
    /\ fsProc[p].pc = "cas"
    /\ LET r == CompareAndSwapLastLeftMs(fs, fsProc[p].lastMs, fsProc[p].leftMs)
       IN /\ fs' = r.s
          /\ fsProc' = [fsProc EXCEPT ![p] =
                            IF r.swapped THEN [@ EXCEPT !.pc = "lock"] ELSE FSIdle]
    /\ UNCHANGED <<fsLog, waVars, rsVars, sqVars, oqVars, stVars, avVars, dlVars>>

\* Update, the critical section
FSUpdateRecord(p) ==
    /\ fsProc[p].pc = "lock"
    /\ fs' = latencyUpdate(fs, fsProc[p].arrival, fsProc[p].left)
    /\ fsProc' = [fsProc EXCEPT ![p] = FSIdle]
    /\ UNCHANGED <<fsLog, waVars, rsVars, sqVars, oqVars, stVars, avVars, dlVars>>

FSStop ==
    /\ fsLog.stops < MaxFSStops
    /\ fs' = ForwardStatsStop(fs)
    /\ fsLog' = [fsLog EXCEPT !.stops = @ + 1]
    /\ UNCHANGED <<fsProc, waVars, rsVars, sqVars, oqVars, stVars, avVars, dlVars>>

\* report, the case of the ticker: GetLastStats and GetStats read latency
FSReportTick ==
    /\ fsLog.report = "select"
    /\ fsLog.reports < MaxFSReports
    /\ fsLog' = [fsLog EXCEPT !.reports = @ + 1]
    /\ UNCHANGED <<fs, fsProc, waVars, rsVars, sqVars, oqVars, stVars, avVars, dlVars>>

\* report, the case of closeCh
FSReportReturn ==
    /\ fsLog.report = "select"
    /\ fs.closeCh > 0
    /\ fsLog' = [fsLog EXCEPT !.report = "returned"]
    /\ UNCHANGED <<fs, fsProc, waVars, rsVars, sqVars, oqVars, stVars, avVars, dlVars>>

NextFS ==
    \/ \E p \in FSProcs, left \in FSLefts, transit \in FSTransits :
          FSUpdateLoad(p, left - transit, left)
    \/ \E p \in FSProcs : FSUpdateSwap(p)
    \/ \E p \in FSProcs : FSUpdateRecord(p)
    \/ FSStop
    \/ FSReportTick
    \/ FSReportReturn

----------------------------------------------------------------------------
(* Specification SpecAV: the availability notifications of a               *)
(* StreamTrackerManager with a listener.  Every tracker runs its status    *)
(* callback on a goroutine of its own: it reports a status only when the   *)
(* status changes, Active first, and one callback after the other.  A      *)
(* callback is three kinds of steps: the tracker calls it, the critical    *)
(* section of s.lock, and each call of the listener after the unlock.  The *)
(* receiver adds trackers and removes them all concurrently; a removed     *)
(* tracker is stopped and calls no callback any more, but a callback that  *)
(* was called goes on.                                                     *)

MaxAVChanges == 4

MaxAVCalls == 3

AVLayers == {0, 1}

AVIdle == [pc |-> "idle", status |-> "Stopped", had |-> FALSE, pending |-> <<>>]

InitAVLog ==
    /\ avTrk = [l \in AVLayers |-> AVIdle]
    /\ avLog = [delivered |-> <<>>, changes |-> 0, calls |-> 0]

\* the receiver: AddTracker for a layer without tracker
AVAddTracker(layer) ==
    /\ avLog.calls < MaxAVCalls
    /\ ~st.trackers[layer]
    /\ avTrk[layer].pc = "idle"
    /\ st' = AddTracker(st, layer).s
    /\ stHooked' = stHooked \cup {layer}
    /\ avTrk' = [avTrk EXCEPT ![layer] = AVIdle]
    /\ avLog' = [avLog EXCEPT !.calls = @ + 1]
    /\ UNCHANGED <<stRep, stLast, stCalls, waVars, rsVars, sqVars, oqVars, fsVars, dlVars>>

\* the receiver: RemoveAllTrackers, which stops the trackers
AVRemoveAllTrackers ==
    /\ avLog.calls < MaxAVCalls
    /\ st' = RemoveAllTrackers(st)
    /\ stHooked' = {}
    /\ avLog' = [avLog EXCEPT !.calls = @ + 1]
    /\ UNCHANGED <<avTrk, stRep, stLast, stCalls, waVars, rsVars, sqVars, oqVars, fsVars, dlVars>>

\* the tracker of a layer changes its status and calls the callback
AVStatusChanged(layer) ==
    /\ avLog.changes < MaxAVChanges
    /\ layer \in stHooked
    /\ avTrk[layer].pc = "idle"
    /\ avTrk' = [avTrk EXCEPT ![layer] =
                    [@ EXCEPT !.pc = "called",
                              !.status = IF @ = "Stopped" THEN "Active" ELSE "Stopped"]]
    /\ avLog' = [avLog EXCEPT !.changes = @ + 1]
    /\ UNCHANGED <<stVars, waVars, rsVars, sqVars, oqVars, fsVars, dlVars>>

\* the callback: the critical section of addAvailableLayer or
\* removeAvailableLayer
AVLocked(layer) ==
    /\ avTrk[layer].pc = "called"
    /\ LET a == OnStatusChanged(st, layer, avTrk[layer].status)
       IN /\ st' = a.s
          /\ avTrk' = [avTrk EXCEPT ![layer] =
                          [@ EXCEPT !.pc = IF a.calls = <<>> THEN "idle" ELSE "notify",
                                    !.had = hasSpatialLayerLocked(st, layer),
                                    !.pending = a.calls]]
    /\ UNCHANGED <<avLog, stRep, stHooked, stLast, stCalls,
                   waVars, rsVars, sqVars, oqVars, fsVars, dlVars>>

\* the callback: the next call of the listener
AVNotify(layer) ==
    /\ avTrk[layer].pc = "notify"
    /\ avLog' = [avLog EXCEPT !.delivered =
                    Append(@, [cb |-> Head(avTrk[layer].pending).cb,
                               arg |-> Head(avTrk[layer].pending).arg,
                               layer |-> layer,
                               status |-> avTrk[layer].status,
                               had |-> avTrk[layer].had])]
    /\ avTrk' = [avTrk EXCEPT ![layer] =
                    [@ EXCEPT !.pc = IF Len(avTrk[layer].pending) = 1
                                       THEN "idle" ELSE "notify",
                              !.pending = Tail(@)]]
    /\ UNCHANGED <<stVars, waVars, rsVars, sqVars, oqVars, fsVars, dlVars>>

NextAV ==
    \/ \E layer \in AVLayers : AVAddTracker(layer)
    \/ AVRemoveAllTrackers
    \/ \E layer \in AVLayers : AVStatusChanged(layer)
    \/ \E layer \in AVLayers : AVLocked(layer)
    \/ \E layer \in AVLayers : AVNotify(layer)

----------------------------------------------------------------------------

Init == InitWA /\ InitFS /\ InitAVLog /\ InitDL /\ InitRS /\ InitSeq /\ InitOQ /\ InitST

\* the engine is built with or without IsReceiverReportDriven
InitLife ==
    /\ InitWA
    /\ InitFS
    /\ InitAVLog
    /\ InitDL
    /\ InitSeq
    /\ InitOQ
    /\ InitST
    /\ rs \in {NewRTPStats(b) : b \in BOOLEAN}
    /\ rsLast = NoRSLast
    /\ rsSeen = {}
    /\ rsCalls = 0
    /\ now = 1

Spec == Init /\ [][Next]_vars

SpecWA == Init /\ [][NextWA]_vars

SpecLife == InitLife /\ [][NextLife]_vars

SpecSeq == Init /\ [][NextSeq]_vars

\* the queue is built with or without FlushOnStop
InitOQAny == InitWA /\ InitFS /\ InitAVLog /\ InitDL /\ InitRS /\ InitSeq /\ InitOQWith(BOOLEAN) /\ InitST

SpecOQ == InitOQAny /\ [][NextOQ]_vars

\* the manager is built for a simulcast or an SVC track, of any track info
InitSTAny == InitWA /\ InitFS /\ InitAVLog /\ InitDL /\ InitRS /\ InitSeq /\ InitOQ /\ InitSTWith(STTrackInfos, BOOLEAN, {ClockRate})

SpecST == InitSTAny /\ [][NextST]_vars

InitSRAny ==
    InitWA /\ InitFS /\ InitAVLog /\ InitDL /\ InitRS /\ InitSeq /\ InitOQ
        /\ InitSTWith({{0, 1, 2}}, BOOLEAN, SRClockRates)

SpecDelta == Init /\ [][NextDelta]_vars

SpecGap == Init /\ [][NextGap]_vars

SpecRSR == Init /\ [][NextRSR]_vars

SpecMeta == Init /\ [][NextMeta]_vars

SpecRing == Init /\ [][NextRing]_vars

SpecPad == Init /\ [][NextPad]_vars

SpecSR == InitSRAny /\ [][NextSR]_vars

SpecFS == Init /\ [][NextFS]_vars

\* the receiver sets itself as the listener of the manager it has built
InitAV ==
    /\ InitWA /\ InitFS /\ InitAVLog /\ InitDL /\ InitRS /\ InitSeq /\ InitOQ
    /\ st = SetListener(NewStreamTrackerManager({0, 1, 2}, FALSE, ClockRate))
    /\ stRep = [pc |-> "select", al |-> <<>>, brs |-> ZeroBitrates]
    /\ stHooked = {}
    /\ stLast = NoSTLast(st)
    /\ stCalls = [calls |-> 0, ticks |-> 0]

SpecAV == InitAV /\ [][NextAV]_vars

\* the scheduler runs every goroutine that can take a step, and a closure
\* that has begun returns
SpecOQLive == SpecOQ /\ WF_vars(OQGo) /\ WF_vars(OQProcess)

----------------------------------------------------------------------------
(* Claims on the extender (SpecWA)                                         *)

WALastGap == SubMod(waLast.val, waLast.pre.highest, U16Range)

\* the last Update was on a seeded extender and took the duplicate /
\* out-of-order branch, or the in-order branch
WALastOOO == waLast.seeded /\ IsOutOfOrderGap(waLast.pre, WALastGap)

WALastInOrder == waLast.seeded /\ ~IsOutOfOrderGap(waLast.pre, WALastGap)

\* the last Update was a restart whose value is above highest (the start wraps
\* below zero, such as 10 then 65530)
WALastWrapRestart ==
    WALastOOO /\ waLast.res.IsRestart /\ waLast.val > waLast.pre.highest

C2_Monotone ==
    /\ waLast.seeded => GetExtendedHighest(wa) >= GetExtendedHighest(waLast.pre)
    /\ WALastInOrder => waLast.res.ExtendedVal > waLast.prevMax
    /\ WALastOOO => /\ waLast.res.ExtendedVal <= GetExtendedHighest(wa)
                    /\ wa.highest = waLast.pre.highest

C3_StartLeHighest ==
    wa.initialized => GetExtendedStart(wa) <= GetExtendedHighest(wa)

\* after a restart that wrapped: the start field is above the highest field
C3_Witness ==
    /\ wa.initialized /\ waLast.res.IsRestart
    /\ wa.start > wa.highest /\ wa.cycles = 1

\* C27: on an initialized extender, an Update with an in-order value
\* (0 < gap <= range/2 in modular arithmetic) returns IsRestart = false and
\* ExtendedVal = PreExtendedHighest + gap, and cycles is incremented exactly
\* when the value is below the highest before it; the values 65530, 65533,
\* 0, 3 are extended to 65530, 65533, 65536, 65539.
C27_InOrderExtends ==
    /\ (/\ waLast.seeded
         /\ 0 < WALastGap
         /\ WALastGap <= U16Range \div 2) =>
            /\ ~waLast.res.IsRestart
            /\ waLast.res.PreExtendedHighest = GetExtendedHighest(waLast.pre)
            /\ waLast.res.ExtendedVal = waLast.res.PreExtendedHighest + WALastGap
            /\ waLast.res.ExtendedVal = GetExtendedHighest(wa)
            /\ wa.highest = waLast.val
            /\ wa.start = waLast.pre.start
            /\ wa.cycles = IF waLast.val < waLast.pre.highest
                             THEN waLast.pre.cycles + 1 ELSE waLast.pre.cycles
    /\ waLast.vals = <<65530, 65533, 0, 3>> =>
            waLast.exts = <<65530, 65533, 65536, 65539>>

\* the values 65530, 65533, 0, 3 were fed: the third one wrapped and counted
\* a cycle
C27_Witness ==
    /\ waLast.vals = <<65530, 65533, 0, 3>>
    /\ waLast.exts = <<65530, 65533, 65536, 65539>>
    /\ ~waLast.res.IsRestart
    /\ wa.cycles = 1

\* an in-order Update of half the range
WAInOrderHalfRange ==
    /\ waLast.seeded
    /\ WALastGap = U16Range \div 2
    /\ waLast.res.ExtendedVal = waLast.res.PreExtendedHighest + U16Range \div 2

\* the extender had seen at most half the range before the last Update, and
\* the value of the last Update precedes its start
WALastPrecedesStart ==
    /\ waLast.seeded
    /\ GetExtendedHighest(waLast.pre) - GetExtendedStart(waLast.pre) + 1
          <= U16Range \div 2
    /\ SubMod(waLast.val, waLast.pre.start, U16Range) > U16Range \div 2

\* what C28 says of the last Update: a restart to the value, after which
\* the number of values from start to highest is their modular distance
\* plus one
WALastRestarted ==
    /\ waLast.res.IsRestart
    /\ waLast.res.PreExtendedStart = GetExtendedStart(waLast.pre)
    /\ waLast.res.ExtendedVal = waLast.val
    /\ wa.start = waLast.val
    /\ wa.highest = waLast.pre.highest
    /\ GetExtendedHighest(wa) - GetExtendedStart(wa) + 1
          = SubMod(wa.highest, wa.start, U16Range) + 1

\* C28 (as stated): while the extender has seen at most range/2 values, an
\* Update with a value that precedes start (val - start > range/2 in modular
\* arithmetic) returns IsRestart = true, PreExtendedStart = the old extended
\* start and ExtendedVal = val, and replaces start with val; afterwards
\* extendedHighest - extendedStart + 1 is the modular distance from the new
\* start to the highest plus one.
C28_Original == WALastPrecedesStart => WALastRestarted

\* C28 (amended): as C28, for a value that is also out of order against the
\* highest (val - highest > range/2 in modular arithmetic); a value that
\* precedes start and is at most range/2 ahead of the highest is an in-order
\* value and makes no restart.  The values 10, 9 give a restart with
\* PreExtendedStart = 10 and ExtendedVal = 9.
C28_Amended ==
    /\ (WALastPrecedesStart /\ WALastGap > U16Range \div 2) => WALastRestarted
    /\ (WALastPrecedesStart /\ WALastGap <= U16Range \div 2) =>
          /\ WALastGap > 0
          /\ ~waLast.res.IsRestart
          /\ wa.start = waLast.pre.start
          /\ wa.highest = waLast.val
    /\ waLast.vals = <<10, 9>> =>
          /\ waLast.exts = <<10, 9>>
          /\ waLast.res.IsRestart
          /\ waLast.res.PreExtendedStart = 10

\* 10 then 65530: the new start wraps below 0, cycles becomes 1 and the
\* extender holds 17 values
C28_Witness ==
    /\ waLast.vals = <<10, 65530>>
    /\ WALastPrecedesStart
    /\ WALastRestarted
    /\ wa.cycles = 1
    /\ GetExtendedHighest(wa) - GetExtendedStart(wa) + 1 = 17

\* 10, 20000, 45000: the last value precedes start by 20546 and is 25000
\* ahead of the highest; it is taken as in-order
WAPrecedesStartInOrder ==
    /\ waLast.vals = <<10, 20000, 45000>>
    /\ WALastPrecedesStart
    /\ ~waLast.res.IsRestart
    /\ wa.start = 10
    /\ wa.highest = 45000

----------------------------------------------------------------------------
(* Claims on RTPStats.Update (Spec)                                        *)

\* the last call was an Update of an engine that was initialized and not stopped
RSLastUpdateLive ==
    rsLast.op = "Update" /\ rsLast.pre.initialized /\ rsLast.pre.endTime = 0

RSLastGapSN == rsLast.resSN.ExtendedVal - rsLast.resSN.PreExtendedHighest

HighestIdx(S) == CHOOSE m \in S : \A x \in S : x <= m

LowestIdx(S) == CHOOSE m \in S : \A x \in S : x >= m

\* the last Update left the highest sequence number and timestamp as they were
RSLastKeepsHighest ==
    /\ rs.sequenceNumber.highest = rsLast.pre.sequenceNumber.highest
    /\ GetExtendedHighest(rs.sequenceNumber)
          = GetExtendedHighest(rsLast.pre.sequenceNumber)
    /\ rs.timestamp.highest = rsLast.pre.timestamp.highest
    /\ GetExtendedHighest(rs.timestamp) = GetExtendedHighest(rsLast.pre.timestamp)

\* C1: on an initialized engine that is not stopped, after any sequence of
\* Update calls, packetsExpected = extHighestSN - extStartSN + 1 equals the
\* number of distinct sequence numbers received plus packetsLost, and
\* packetsLost <= packetsExpected.
C1_BookkeepingIdentity ==
    (rs.initialized /\ rs.endTime = 0) =>
        /\ getPacketsExpected(rs) = Cardinality(rsSeen) + rs.packetsLost
        /\ rs.packetsLost <= getPacketsExpected(rs)

\* C4: an in-order Update whose extended sequence number is g above the
\* extended highest before it, with g > 1, returns HasLoss with the loss
\* interval [preExtHighest + 1, extSN) and adds g - 1 to packetsLost; with
\* g = 1 it returns no loss and leaves packetsLost unchanged.
C4_InOrderLoss ==
    (RSLastUpdateLive /\ RSLastGapSN > 0) =>
        /\ rsLast.flowState.ExtSequenceNumber
              = GetExtendedHighest(rsLast.pre.sequenceNumber) + RSLastGapSN
        /\ RSLastGapSN > 1 =>
              /\ rsLast.flowState.HasLoss
              /\ rsLast.flowState.LossStartInclusive
                    = GetExtendedHighest(rsLast.pre.sequenceNumber) + 1
              /\ rsLast.flowState.LossEndExclusive = rsLast.flowState.ExtSequenceNumber
              /\ rs.packetsLost = rsLast.pre.packetsLost + RSLastGapSN - 1
        /\ RSLastGapSN = 1 =>
              /\ ~rsLast.flowState.HasLoss
              /\ rs.packetsLost = rsLast.pre.packetsLost

\* an in-order packet across the 16-bit wrap, three above the highest
C4_Witness ==
    /\ RSLastUpdateLive /\ RSLastGapSN = 3
    /\ rsLast.pkt.sn < rsLast.pre.sequenceNumber.highest
    /\ rsLast.flowState.HasLoss
    /\ rs.packetsLost = rsLast.pre.packetsLost + 2

\* the packet of the last Update was never received, lies between the lowest
\* and the highest packet received, and is less than SnInfoSize behind the
\* highest: its sequence number was counted as lost
RSLastFillsLost ==
    /\ RSLastUpdateLive
    /\ rsLast.seen # {}
    /\ rsLast.pkt.idx \notin rsLast.seen
    /\ rsLast.pkt.idx > LowestIdx(rsLast.seen)
    /\ rsLast.pkt.idx < HighestIdx(rsLast.seen)
    /\ HighestIdx(rsLast.seen) - rsLast.pkt.idx < SnInfoSize

\* C5: an out-of-order Update whose sequence number was counted as lost, within
\* the SnInfo window, fills the slot, takes one from packetsLost, adds one to
\* packetsOutOfOrder, reports neither loss nor duplicate, and leaves the
\* highest sequence number and the highest timestamp unchanged.
C5_OutOfOrderFill ==
    RSLastFillsLost =>
        /\ ~isSnInfoLost(rs, rsLast.resSN.ExtendedVal,
                         GetExtendedHighest(rs.sequenceNumber))
        /\ isSnInfoLost(rsLast.pre, rsLast.resSN.ExtendedVal,
                        GetExtendedHighest(rsLast.pre.sequenceNumber))
        /\ rs.packetsLost = rsLast.pre.packetsLost - 1
        /\ rs.packetsOutOfOrder = rsLast.pre.packetsOutOfOrder + 1
        /\ ~rsLast.flowState.HasLoss
        /\ ~rsLast.flowState.IsDuplicate
        /\ rsLast.flowState.IsOutOfOrder
        /\ RSLastKeepsHighest

\* a lost packet from before the 16-bit wrap arrives after the wrap
C5_Witness ==
    /\ RSLastFillsLost
    /\ rsLast.pkt.sn > rsLast.pre.sequenceNumber.highest
    /\ rsLast.pre.packetsLost > 0
    /\ rs.packetsLost = rsLast.pre.packetsLost - 1

\* the packet of the last Update was received before and is less than
\* SnInfoSize behind the highest packet received
RSLastRepeats ==
    /\ RSLastUpdateLive
    /\ rsLast.pkt.idx \in rsLast.seen
    /\ HighestIdx(rsLast.seen) - rsLast.pkt.idx < SnInfoSize

\* C6: an Update with a sequence number that was already received (the highest
\* one or an older one still in the SnInfo window) returns IsDuplicate, adds
\* one to packetsDuplicate, and leaves packetsLost, bytes, the highest
\* sequence number and the highest timestamp unchanged.
C6_DuplicateDetected ==
    RSLastRepeats =>
        /\ rsLast.flowState.IsDuplicate
        /\ rs.packetsDuplicate = rsLast.pre.packetsDuplicate + 1
        /\ rs.packetsLost = rsLast.pre.packetsLost
        /\ rs.bytes = rsLast.pre.bytes
        /\ RSLastKeepsHighest

\* C7: when the extended sequence span is at most SnInfoSize,
\* getIntervalStats(extStart, extHighest + 1) returns packetsLost equal to the
\* packetsLost counter, and packets and packetsPadding equal to the numbers of
\* distinct non-padding and padding-only sequence numbers received.
C7_IntervalStatsRoundTrip ==
    (rs.initialized /\ getPacketsExpected(rs) <= SnInfoSize) =>
        LET s == getIntervalStats(rs, GetExtendedStart(rs.sequenceNumber),
                                  GetExtendedHighest(rs.sequenceNumber) + 1)
        IN /\ s.packetsLost = rs.packetsLost
           /\ s.packets = Cardinality(rsSeen \ PaddingIdx)
           /\ s.packetsPadding = Cardinality(rsSeen \cap PaddingIdx)

\* C9: an Update of an uninitialized engine with a padding-only packet returns
\* IsNotHandled and records nothing (the engine, its extenders and its
\* counters are as before); the first Update with a payload initializes the
\* engine and sets the start sequence number and the start timestamp.
C9_PaddingBeforeInit ==
    (rsLast.op = "Update" /\ ~rsLast.pre.initialized /\ rsLast.pre.endTime = 0) =>
        IF rsLast.pkt.payloadSize = 0
          THEN /\ rsLast.flowState.IsNotHandled
               /\ ~rs.initialized
               /\ ~rs.sequenceNumber.initialized /\ ~rs.timestamp.initialized
               /\ rs = rsLast.pre
               /\ rs = NewRTPStats(rs.IsReceiverReportDriven)
          ELSE /\ ~rsLast.flowState.IsNotHandled
               /\ rs.initialized
               /\ rs.sequenceNumber.initialized /\ rs.timestamp.initialized
               /\ GetExtendedStart(rs.sequenceNumber) = rsLast.pkt.sn
               /\ GetExtendedStart(rs.timestamp) = rsLast.pkt.ts

\* two padding-only packets were rejected before the first packet with a payload
C9_Witness ==
    /\ rsLast.op = "Update" /\ ~rsLast.pre.initialized
    /\ rsLast.pkt.payloadSize > 0
    /\ rsCalls = 3
    /\ rs.initialized /\ rsSeen = {rsLast.pkt.idx}

----------------------------------------------------------------------------
(* Claims on the life of RTPStats (SpecLife)                               *)

C8Mutators ==
    {"Update", "UpdateNack", "UpdatePli", "UpdateFir", "UpdateKeyFrame",
     "UpdateRtt", "UpdateFromReceiverReport", "SetRtcpSenderReportData",
     "ResyncOnNextPacket", "NewSnapshotId", "GetRtcpSenderReport"}

\* C8: after Stop, every mutating call (Update, UpdateNack, UpdatePli,
\* UpdateFir, UpdateKeyFrame, UpdateRtt, UpdateFromReceiverReport,
\* SetRtcpSenderReportData, ResyncOnNextPacket, NewSnapshotId,
\* GetRtcpSenderReport) leaves the engine unchanged, and Update returns
\* IsNotHandled.
C8_NoOpAfterStop ==
    (rsLast.op \in C8Mutators /\ rsLast.pre.endTime # 0) =>
        /\ rs = rsLast.pre
        /\ rsLast.op = "Update" => rsLast.flowState.IsNotHandled

----------------------------------------------------------------------------
(* Claims on the sequencer (SpecSeq)                                       *)

\* the last call was getPacketsMeta for one sequence number that is stored
SeqLastGetStored ==
    /\ sqLast.op = "getPacketsMeta"
    /\ Len(sqLast.seqNo) = 1
    /\ lookupMeta(sqLast.pre, sqLast.seqNo[1]) # -1

\* the packetMeta found by the last call, before the call
SeqLastMeta == sqLast.pre.meta[lookupMeta(sqLast.pre, sqLast.seqNo[1])]

SeqLastElapsed == sqLast.refTime - SeqLastMeta.lastNack

\* C10 (as stated): getPacketsMeta skips a stored sequence number exactly when
\* refTime - lastNack < min(100 ms, 2*rtt) or nacked >= 3, so that a request
\* at an elapsed time >= the threshold with nacked < 3 returns it.
C10_Original ==
    SeqLastGetStored =>
        (sqLast.meta = <<>>
            <=> (SeqLastElapsed < nackThreshold(sqLast.pre)
                   \/ SeqLastMeta.nacked >= maxAck))

\* C10 (amended): getPacketsMeta skips a stored sequence number exactly when
\* refTime - lastNack <= min(100 ms, 2*rtt) or nacked >= 3; a returned meta
\* has its nacked counted and its lastNack set to refTime; and one call
\* returns a sequence number at most once.
C10_Amended ==
    /\ SeqLastGetStored =>
          /\ sqLast.meta = <<>>
                <=> (SeqLastElapsed <= nackThreshold(sqLast.pre)
                       \/ SeqLastMeta.nacked >= maxAck)
          /\ sqLast.meta # <<>> =>
                sqLast.meta = <<[SeqLastMeta EXCEPT !.nacked = @ + 1,
                                                    !.lastNack = sqLast.refTime]>>
    /\ sqLast.op = "getPacketsMeta" =>
          \A sn \in SeqSNs : SeqCount(sqLast.meta, sn) <= 1

\* a request exactly at the threshold, with nacked < 3, is skipped
C10_Witness ==
    /\ SeqLastGetStored
    /\ SeqLastElapsed = nackThreshold(sqLast.pre)
    /\ SeqLastMeta.nacked < maxAck
    /\ sqLast.meta = <<>>


\* C11: over any sequence of push, pushPadding, setRTT and getPacketsMeta
\* calls, a target sequence number is returned by getPacketsMeta at most 3
\* times in total.
C11_NackCap == \A sn \in SeqAllSNs : sqReturned[sn] <= maxAck

\* the cap that push keeps: the packetMeta of one push is returned at most 3
\* times
SeqNackedWithinCap == \A m \in DOMAIN sq.meta : sq.meta[m].nacked <= maxAck

\* a sequence number that is refused has no packetMeta to be found
SeqRefusedNotFound == \A sn \in sqRefused : lookupMeta(sq, sn) = -1

\* C12: a sequence number recorded with pushPadding, and every sequence
\* number skipped over by an in-order push, is never returned by
\* getPacketsMeta unless it is later stored by push with that target
\* sequence number.
C12_PaddingRefused ==
    /\ SeqRefusedNotFound
    /\ sqLast.op = "getPacketsMeta" =>
          \A i \in 1 .. Len(sqLast.meta) :
              sqLast.meta[i].targetSeqNo \notin sqRefused

\* a sequence number that was pushed and returned, then overwritten by an
\* out-of-order pushPadding, is requested after the pacing threshold and is
\* not returned
C12_Witness ==
    /\ sqLast.op = "getPacketsMeta"
    /\ Len(sqLast.seqNo) = 1
    /\ sqLast.seqNo[1] \in sqRefused
    /\ sqReturned[sqLast.seqNo[1]] > 0
    /\ SubMod(sqLast.pre.headSN, sqLast.seqNo[1], U16Range) < sqLast.pre.max
    /\ sqLast.meta = <<>>

----------------------------------------------------------------------------
(* Claims on the OpsQueue (SpecOQ, SpecOQLive)                             *)

IsPrefix(a, b) == Len(a) <= Len(b) /\ a = SubSeq(b, 1, Len(a))

\* the goroutines of process that were launched
OQLaunched == {p \in OQProcs : oqProc[p].pc # "none"}

\* the closures that are executing
OQExecuting == {p \in OQProcs : oqProc[p].pc = "op"}

\* the closures popped by a consumer that have not begun
OQHeld == {p \in OQProcs : oqProc[p].pc = "popped"}

OQHeldSeq == IF OQHeld = {} THEN <<>> ELSE <<oqProc[CHOOSE p \in OQHeld : TRUE].op>>

\* C13: closures run in the order their Enqueue calls acquired the lock,
\* and no two closures are ever executing at the same time.
C13_FifoOneAtATime ==
    /\ Cardinality(OQExecuting) <= 1
    /\ Cardinality(OQHeld) <= 1
    /\ oqLog.accepted = oqLog.begun \o OQHeldSeq \o oq.ops
    /\ IsPrefix(oqLog.finished, oqLog.begun)
    /\ Len(oqLog.begun) - Len(oqLog.finished) = Cardinality(OQExecuting)

\* the second closure is executing after the first has returned, and the
\* third, enqueued meanwhile, waits in the deque
C13_Witness ==
    /\ \E p \in OQProcs : oqProc[p] = [pc |-> "op", op |-> 2]
    /\ oqLog.finished = <<1>>
    /\ oq.ops = <<3>>

\* C14: for any number of Start calls, sequential or concurrent, before or
\* after Stop, at most one goroutine of process is ever launched.
C14_OneConsumer ==
    /\ Cardinality(OQLaunched) + oqSpawn <= 1
    /\ oqLog.starts > 0 => Cardinality(OQLaunched) + oqSpawn = 1

\* two Start calls on a queue that was stopped first have launched one
\* consumer
C14_Witness ==
    /\ oqLog.starts = 2
    /\ oqLog.stoppedFirst
    /\ Cardinality(OQLaunched) = 1
    /\ oqSpawn = 0

\* C15: with FlushOnStop, every closure enqueued before Stop has been executed
\* when the completion channel closes; without it, no closure begins after
\* the consumer has observed the stop, and the closures queued at that point
\* are never executed.
C15_FlushOnStop ==
    /\ (oq.params.FlushOnStop /\ oq.doneClosed > 0) =>
          /\ oqLog.finished = oqLog.acceptedAtStop
          /\ oq.ops = <<>>
    /\ (~oq.params.FlushOnStop /\ oqLog.exited) =>
          /\ oqLog.begun = oqLog.begunAtExit
          /\ oq.ops = oqLog.queuedAtExit
          /\ \A i \in 1 .. Len(oqLog.queuedAtExit) :
                \A j \in 1 .. Len(oqLog.begun) : oqLog.begun[j] # oqLog.queuedAtExit[i]

\* FlushOnStop: Stop found two closures queued, and both have run when the
\* completion channel is closed
C15_Witness ==
    /\ oq.params.FlushOnStop
    /\ oq.doneClosed = 1
    /\ Len(oqLog.queuedAtStop) >= 2
    /\ oqLog.finished = oqLog.acceptedAtStop

\* without FlushOnStop: the consumer has left closures in the deque
OQDroppedAtExit ==
    /\ ~oq.params.FlushOnStop
    /\ oqLog.exited
    /\ oqLog.queuedAtExit # <<>>

\* C16: every Stop returns the same completion channel, and the wake channel
\* is closed exactly once.
C16_StopIdempotent ==
    /\ oqLog.stopReturns \subseteq {oq.doneChan}
    /\ oq.wakeClosed <= 1
    /\ oq.isStopped <=> oq.wakeClosed = 1
    /\ oqLog.stops > 0 => oq.isStopped

\* two Stop calls were made
C16_Witness ==
    /\ oqLog.stops = 2
    /\ oq.wakeClosed = 1
    /\ oqLog.stopReturns = {oq.doneChan}

\* C17: on a queue that is started, before or after the Stop, the consumer
\* terminates and the completion channel is closed eventually after Stop,
\* for both FlushOnStop settings.
C17_StopTerminates ==
    (oq.isStopped /\ oq.isStarted) ~> (oq.doneClosed = 1 /\ \A p \in OQLaunched : oqProc[p].pc = "returned")

\* a queue stopped before its Start, with closures flushed, has closed the
\* completion channel
C17_Witness ==
    /\ oqLog.stoppedFirst
    /\ oq.doneClosed = 1
    /\ oqLog.finished # <<>>

\* a queue that is stopped and never started keeps the completion channel open
OQStopWithoutStart == oq.isStopped ~> oq.doneClosed = 1

----------------------------------------------------------------------------
(* Claims on the StreamTrackerManager (SpecST)                             *)

SeqToSet(x) == {x[i] : i \in 1 .. Len(x)}

STLastIsCallback(cb) == \E i \in 1 .. Len(stLast.calls) : stLast.calls[i].cb = cb

\* C18: after any interleaving of status callbacks, RemoveTracker and
\* RemoveAllTrackers, availableLayers is sorted strictly ascending; a
\* Stopped status removes the layer and any other status inserts it.
C18_AvailableLayersSorted ==
    /\ \A i \in 1 .. (Len(st.availableLayers) - 1) :
          st.availableLayers[i] < st.availableLayers[i + 1]
    /\ stLast.op = "removeAvailableLayer" =>
          SeqToSet(st.availableLayers)
              = SeqToSet(stLast.pre.availableLayers) \ {stLast.layer}
    /\ stLast.op = "addAvailableLayer" =>
          SeqToSet(st.availableLayers)
              = SeqToSet(stLast.pre.availableLayers) \cup {stLast.layer}
    /\ stLast.op \in {"RemoveTracker", "AddTracker"} =>
          st.availableLayers = stLast.pre.availableLayers
    /\ stLast.op = "RemoveAllTrackers" => st.availableLayers = <<>>

\* a layer below the available ones was reported active and was inserted in
\* front
C18_Witness ==
    /\ stLast.op = "addAvailableLayer"
    /\ stLast.pre.availableLayers # <<>>
    /\ stLast.layer < stLast.pre.availableLayers[1]
    /\ st.availableLayers = <<stLast.layer>> \o stLast.pre.availableLayers

\* C19: maxTemporalLayerSeen never decreases, and
\* OnMaxTemporalLayerSeenChanged is invoked only when the value strictly
\* increases.
C19_MaxTemporalMonotone ==
    /\ st.maxTemporalLayerSeen >= stLast.pre.maxTemporalLayerSeen
    /\ \A i \in 1 .. Len(stLast.calls) :
          stLast.calls[i].cb = "OnMaxTemporalLayerSeenChanged" =>
              /\ stLast.calls[i].arg = st.maxTemporalLayerSeen
              /\ stLast.calls[i].arg > stLast.pre.maxTemporalLayerSeen
    /\ stLast.op \in {"RemoveTracker", "RemoveAllTrackers"} =>
          st.maxTemporalLayerSeen = stLast.pre.maxTemporalLayerSeen

\* a report whose highest temporal layer is below the one seen leaves the
\* value and makes no OnMaxTemporalLayerSeenChanged callback
C19_Witness ==
    /\ stLast.op = "updateMaxTemporalLayerSeen"
    /\ st.listener
    /\ maxTemporalLayerOf(stRep.brs) < st.maxTemporalLayerSeen
    /\ st.maxTemporalLayerSeen = stLast.pre.maxTemporalLayerSeen
    /\ ~STLastIsCallback("OnMaxTemporalLayerSeenChanged")

\* a report with a higher temporal layer is stored and told to the listener
STTemporalLayerRaised ==
    /\ stLast.op = "updateMaxTemporalLayerSeen"
    /\ stLast.pre.maxTemporalLayerSeen >= 0
    /\ st.maxTemporalLayerSeen > stLast.pre.maxTemporalLayerSeen
    /\ STLastIsCallback("OnMaxTemporalLayerSeenChanged")

\* what the last DistanceToDesired had before it: availableLayers and the
\* bitrates of the trackers
STLastBitrates == getLayeredBitrateLocked(st, stLast.tb).brs

\* the spatial layers that are available or have a bitrate
STLayersKnown ==
    SeqToSet(st.availableLayers)
        \cup {sp \in SpatialLayers : \E t \in TemporalLayers : STLastBitrates[sp][t] # 0}

\* the top (spatial, temporal) layer for which the manager has availability
\* or a bitrate; the temporal layer of a layer without bitrate is the
\* highest one seen
STTopLayer ==
    IF STLayersKnown = {} THEN InvalidLayer
    ELSE LET sp == MaxInSet(STLayersKnown)
             ts == {t \in TemporalLayers : STLastBitrates[sp][t] # 0}
         IN [Spatial |-> sp,
             Temporal |-> IF ts = {} THEN st.maxTemporalLayerSeen ELSE MaxInSet(ts)]

STDesiredLayer ==
    [Spatial |-> st.maxExpectedLayer, Temporal |-> st.maxTemporalLayerSeen]

\* C20 (as stated): DistanceToDesired returns 0 if and only if the top layer
\* equals (maxExpectedLayer, maxTemporalLayerSeen), in every reachable state
\* including paused.
C20_Original ==
    stLast.op = "DistanceToDesired" =>
        (stLast.result.num = 0 <=> STTopLayer = STDesiredLayer)

\* C20 (amended): DistanceToDesired returns 0 when the manager is paused or
\* maxExpectedLayer or maxTemporalLayerSeen is invalid; otherwise, when the
\* temporal layer of the top layer is not above maxTemporalLayerSeen, it
\* returns 0 if and only if the top layer equals (maxExpectedLayer,
\* maxTemporalLayerSeen), also with an available layer above maxExpectedLayer.
C20_Amended ==
    stLast.op = "DistanceToDesired" =>
        IF st.paused \/ st.maxExpectedLayer < 0 \/ st.maxTemporalLayerSeen < 0
          THEN stLast.result.num = 0
          ELSE /\ stLast.result.den = st.maxTemporalLayerSeen + 1
               /\ STTopLayer.Temporal <= st.maxTemporalLayerSeen =>
                     (stLast.result.num = 0 <=> STTopLayer = STDesiredLayer)

\* not paused, the top layer is the desired one and the distance is 0
C20_Witness ==
    /\ stLast.op = "DistanceToDesired"
    /\ ~st.paused
    /\ IsValid(STDesiredLayer)
    /\ STTopLayer = STDesiredLayer
    /\ stLast.result.num = 0

\* not paused, an available layer is above maxExpectedLayer and the distance
\* is below 0
STDistanceAboveExpected ==
    /\ stLast.op = "DistanceToDesired"
    /\ ~st.paused
    /\ IsValid(STDesiredLayer)
    /\ STTopLayer.Spatial > st.maxExpectedLayer
    /\ stLast.result.num < 0

\* not paused, a bitrate on a temporal layer above maxTemporalLayerSeen makes
\* the distance 0 for a top layer below the expected one
STDistanceZeroBelowExpected ==
    /\ stLast.op = "DistanceToDesired"
    /\ ~st.paused
    /\ IsValid(STDesiredLayer)
    /\ STTopLayer.Spatial < st.maxExpectedLayer
    /\ stLast.result.num = 0

\* tb2 has a bitrate wherever tb has one
STBitratesAtLeast(tb, tb2) ==
    \A sp \in SpatialLayers : \A t \in TemporalLayers :
        tb[sp][t] # 0 => tb2[sp][t] # 0

\* the managers and tracker answers with more available than (s, tb): a
\* tracker of s may have reported one more layer, and bitrates may have
\* become non-zero; maxExpectedLayer, maxTemporalLayerSeen and paused are
\* those of s
STMoreAvailable(s, tb) ==
    {m \in [s : {s} \cup {addAvailableLayer(s, l).s :
                              l \in {x \in SpatialLayers : s.trackers[x]}},
            tb : STBitrates] :
        /\ m.s.maxExpectedLayer = s.maxExpectedLayer
        /\ m.s.maxTemporalLayerSeen = s.maxTemporalLayerSeen
        /\ m.s.paused = s.paused
        /\ STAsked(m.s, m.tb)
        /\ STBitratesAtLeast(tb, m.tb)}

\* C21: with maxExpectedLayer, maxTemporalLayerSeen and paused fixed, more
\* layers being available (a layer added to availableLayers, a bitrate
\* becoming non-zero) never increases what DistanceToDesired returns, and
\* what it returns is never negative.
C21_DistanceMonotone ==
    stLast.op = "DistanceToDesired" =>
        /\ stLast.result.num >= 0
        /\ \A m \in STMoreAvailable(st, stLast.tb) :
              DistanceToDesired(m.s, m.tb).num <= stLast.result.num

\* the first half of C21 alone: the distance is never negative
STDistanceNonNegative ==
    stLast.op = "DistanceToDesired" => stLast.result.num >= 0

\* the second half of C21 alone: more available never increases the distance
STDistanceNonIncreasing ==
    stLast.op = "DistanceToDesired" =>
        \A m \in STMoreAvailable(st, stLast.tb) :
            DistanceToDesired(m.s, m.tb).num <= stLast.result.num

\* the second half of C21 while no bitrate is on a temporal layer above
\* maxTemporalLayerSeen and every available layer has a bitrate on
\* maxTemporalLayerSeen or none is measured at all
STDistanceNonIncreasingMeasured ==
    stLast.op = "DistanceToDesired" =>
        \A m \in STMoreAvailable(st, stLast.tb) :
            (\A sp \in SpatialLayers :
                /\ \A t \in TemporalLayers :
                      m.tb[sp][t] # 0 => t <= st.maxTemporalLayerSeen
                /\ hasSpatialLayerLocked(m.s, sp) =>
                      m.tb[sp][MaxOf(st.maxTemporalLayerSeen, 0)] # 0
                /\ hasSpatialLayerLocked(st, sp) =>
                      stLast.tb[sp][MaxOf(st.maxTemporalLayerSeen, 0)] # 0)
            => DistanceToDesired(m.s, m.tb).num <= stLast.result.num


\* C25: after StreamTrackerManager.Close(), the calls AddTracker,
\* RemoveTracker, SetPaused and SetMaxExpectedSpatialLayer leave the manager
\* as it was.
C25_ClosedIsNoOp ==
    (/\ stLast.pre.closed
     /\ stLast.op \in {"AddTracker", "RemoveTracker", "SetPaused",
                       "SetMaxExpectedSpatialLayer"}) =>
        st = stLast.pre

\* RemoveTracker after Close, as the deferred function of forwardRTP calls
\* it, removes the tracker
STRemoveTrackerAfterClose ==
    /\ stLast.pre.closed
    /\ stLast.op = "RemoveTracker"
    /\ stLast.pre.trackers[stLast.layer]
    /\ ~st.trackers[stLast.layer]

----------------------------------------------------------------------------
(* Claims on the sender reports of the StreamTrackerManager (SpecSR)       *)

\* the newest sender report of a layer is there and has an NTP time
SRHasNewest(l) ==
    /\ ~st.senderReports[l].newest.isNil
    /\ st.senderReports[l].newest.NTPTimestamp # 0

\* NTP time of the newest report of ref minus that of other, in ms
SRNtpDiff(ref, other) ==
    st.senderReports[ref].newest.NTPTimestamp
        - st.senderReports[other].newest.NTPTimestamp

\* an NTP difference of d ms in ticks of the clock, rounded toward zero
SRTicks(d) ==
    IF d >= 0 THEN (d * (st.clockRate \div 100)) \div 10
    ELSE 0 - (((0 - d) * (st.clockRate \div 100)) \div 10)

\* refRTP - (otherRTP + ntpDiff * clockRate), modulo the timestamp range,
\* with 1 in the place of 0
SRExpectedOffset(ref, other) ==
    LET offset == (st.senderReports[ref].newest.RTPTimestamp
                     - (st.senderReports[other].newest.RTPTimestamp
                          + SRTicks(SRNtpDiff(ref, other)))) % TSRange
    IN IF offset = 0 THEN 1 ELSE offset

\* the other layers whose newest report is within 60 s of the one of layer l
SRLayersNear(l) ==
    {o \in SpatialLayers \ {l} :
        /\ SRHasNewest(o)
        /\ SRNtpDiff(l, o) <= 60000
        /\ SRNtpDiff(l, o) >= -60000}

\* C22: after SetRTCPSenderReportData for a layer, for every other layer whose
\* newest sender report has a non-zero NTP time within 60 s of the layer's,
\* layerOffsets[ref][other] = refRTP - (otherRTP + ntpDiff * clockRate) in
\* modular arithmetic, in both directions, a computed 0 being stored as 1;
\* an NTP difference of 200 ms at clock rate 90000 is 18000 ticks.
C22_LayerOffsets ==
    (/\ stLast.op = "SetRTCPSenderReportData"
     /\ stLast.layer \in SpatialLayers
     /\ SRHasNewest(stLast.layer)) =>
        \A o \in SRLayersNear(stLast.layer) :
            /\ st.layerOffsets[stLast.layer][o] = SRExpectedOffset(stLast.layer, o)
            /\ st.layerOffsets[o][stLast.layer] = SRExpectedOffset(o, stLast.layer)
            /\ (st.clockRate = 90000 /\ SRNtpDiff(stLast.layer, o) = 200) =>
                  st.layerOffsets[stLast.layer][o] =
                      LET offset == (st.senderReports[stLast.layer].newest.RTPTimestamp
                                       - st.senderReports[o].newest.RTPTimestamp
                                       - 18000) % TSRange
                      IN IF offset = 0 THEN 1 ELSE offset

\* a report 200 ms after the one of another layer, 18000 ticks later at
\* clock rate 90000: the computed offset is 0 in both directions and 1 is
\* stored in both
C22_Witness ==
    /\ stLast.op = "SetRTCPSenderReportData"
    /\ stLast.layer \in SpatialLayers
    /\ SRHasNewest(stLast.layer)
    /\ st.clockRate = 90000
    /\ \E o \in SRLayersNear(stLast.layer) :
          /\ SRNtpDiff(stLast.layer, o) = 200
          /\ st.senderReports[stLast.layer].newest.RTPTimestamp
               = st.senderReports[o].newest.RTPTimestamp + 18000
          /\ stLast.pre.layerOffsets[stLast.layer][o] = 0
          /\ st.layerOffsets[stLast.layer][o] = 1
          /\ st.layerOffsets[o][stLast.layer] = 1

\* an offset that is not the sentinel: the offsets of the two directions
\* add up to 0, also for a difference that is not a whole number of ticks
SROffsetsOpposite ==
    /\ stLast.op = "SetRTCPSenderReportData"
    /\ stLast.layer \in SpatialLayers
    /\ st.clockRate = 44100
    /\ \E o \in SRLayersNear(stLast.layer) :
          /\ SRNtpDiff(stLast.layer, o) = -1
          /\ st.layerOffsets[stLast.layer][o] > 1
          /\ (st.layerOffsets[stLast.layer][o] + st.layerOffsets[o][stLast.layer])
                % TSRange = 0

\* reports more than 60 s apart leave the offsets of the two layers
SRFarLeavesOffsets ==
    (/\ stLast.op = "SetRTCPSenderReportData"
     /\ stLast.layer \in SpatialLayers) =>
        \A o \in SpatialLayers \ SRLayersNear(stLast.layer) :
            /\ st.layerOffsets[stLast.layer][o] = stLast.pre.layerOffsets[stLast.layer][o]
            /\ st.layerOffsets[o][stLast.layer] = stLast.pre.layerOffsets[o][stLast.layer]


\* C23: GetReferenceLayerRTPTimestamp(ts, layer, ref) returns an "invalid
\* layer" error when layer or ref is outside 0..DefaultMaxLayerSpatial;
\* otherwise ts when the track is SVC; otherwise an "offset unavailable"
\* error when layer # ref and layerOffsets[ref][layer] = 0; otherwise
\* ts + layerOffsets[ref][layer] in modular arithmetic, which is ts when
\* layer = ref.
C23_ReferenceTimestamp ==
    stLast.op = "GetReferenceLayerRTPTimestamp" =>
        LET layer == stLast.layer
            ref == stLast.referenceLayer
        IN IF layer \notin SpatialLayers \/ ref \notin SpatialLayers
             THEN stLast.out.err = "invalid layer"
           ELSE IF st.isSVC
             THEN stLast.out = [ts |-> stLast.ts, err |-> "nil"]
           ELSE IF layer # ref /\ st.layerOffsets[ref][layer] = 0
             THEN stLast.out.err = "offset unavailable"
           ELSE /\ stLast.out.err = "nil"
                /\ stLast.out.ts = (stLast.ts + st.layerOffsets[ref][layer]) % TSRange
                /\ layer = ref => stLast.out.ts = stLast.ts

\* a simulcast track with an offset between two layers: the timestamp of
\* the layer plus the offset wraps around
C23_Witness ==
    /\ stLast.op = "GetReferenceLayerRTPTimestamp"
    /\ ~st.isSVC
    /\ stLast.layer \in SpatialLayers
    /\ stLast.referenceLayer \in SpatialLayers
    /\ stLast.layer # stLast.referenceLayer
    /\ st.layerOffsets[stLast.referenceLayer][stLast.layer] > 1
    /\ stLast.out.err = "nil"
    /\ stLast.out.ts < stLast.ts
    /\ stLast.out.ts = stLast.ts + st.layerOffsets[stLast.referenceLayer][stLast.layer]
                          - TSRange

\* an SVC track with offsets between its layers: the timestamp is returned
\* as it is
SRSVCKeepsTimestamp ==
    /\ stLast.op = "GetReferenceLayerRTPTimestamp"
    /\ st.isSVC
    /\ stLast.layer \in SpatialLayers
    /\ stLast.referenceLayer \in SpatialLayers
    /\ st.layerOffsets[stLast.referenceLayer][stLast.layer] > 1
    /\ stLast.out = [ts |-> stLast.ts, err |-> "nil"]


\* the manager was closed before the last call, a SetRTCPSenderReportData,
\* which left the manager as it was
SRClosedKeepsReports ==
    (stLast.op = "SetRTCPSenderReportData" /\ stLast.pre.closed) => st = stLast.pre

\* the part of C25 on closing the manager twice: a second Close leaves it
SRCloseTwiceIsSafe ==
    (stLast.pre.closed /\ stLast.op = "Close") => st = stLast.pre

\* a manager closed twice
SRClosedTwice ==
    stLast.pre.closed /\ stLast.op = "Close" /\ st.closed

----------------------------------------------------------------------------
(* Claims on ForwardStats (SpecFS)                                         *)

\* the millisecond a recorded sample left at
FSLeftMsOf(sample) == UnixMilli(sample.arrival + sample.transit)

\* C24: Update records a sample only if 0 <= left - arrival <= 5 s and left,
\* in milliseconds, is strictly newer than every left recorded before it;
\* under concurrent Update calls no two recorded samples share the
\* millisecond of left, and lastLeftMs is not below the left of a recorded
\* sample.
C24_RecordsStrictlyNewest ==
    /\ \A i \in 1 .. Len(fs.latency) :
          /\ fs.latency[i].transit >= 0
          /\ fs.latency[i].transit <= MaxTransit
          /\ FSLeftMsOf(fs.latency[i]) <= fs.lastLeftMs
    /\ \A i \in 1 .. Len(fs.latency), j \in 1 .. Len(fs.latency) :
          i < j => FSLeftMsOf(fs.latency[i]) < FSLeftMsOf(fs.latency[j])

\* the part of C24 on the transit: a recorded sample has a transit of 0 to
\* 5 s, and no left is above lastLeftMs
FSRecordedTransit ==
    \A i \in 1 .. Len(fs.latency) :
        /\ fs.latency[i].transit >= 0
        /\ fs.latency[i].transit <= MaxTransit
        /\ FSLeftMsOf(fs.latency[i]) <= fs.lastLeftMs

\* the part of C24 on lastLeftMs: it never decreases
FSLastLeftMsMonotone == [][fs'.lastLeftMs >= fs.lastLeftMs]_vars

\* the part of C24 on the millisecond of left: no two recorded samples
\* share it
FSRecordedDistinctMs ==
    \A i \in 1 .. Len(fs.latency), j \in 1 .. Len(fs.latency) :
        i # j => FSLeftMsOf(fs.latency[i]) # FSLeftMsOf(fs.latency[j])

\* the part of C24 on the order: a sample is recorded after the samples that
\* left before it
FSRecordedInOrder ==
    \A i \in 1 .. Len(fs.latency), j \in 1 .. Len(fs.latency) :
        i < j => FSLeftMsOf(fs.latency[i]) <= FSLeftMsOf(fs.latency[j])

\* one goroutine calling Update, one call after the other, records two
\* samples of one millisecond
FSSequentialSameMs ==
    /\ fsProc[2] = FSIdle
    /\ fsLog.updates = 2
    /\ Len(fs.latency) = 2
    /\ FSLeftMsOf(fs.latency[1]) = FSLeftMsOf(fs.latency[2])


\* a closed channel was closed again: close(s.closeCh) panics
FSStopTwice == fs.closeCh > 1

\* two calls of Stop leave closeCh closed once
FSStopTwiceIsSafe == fsLog.stops = 2 => fs.closeCh = 1

----------------------------------------------------------------------------
(* Claims on the availability notifications (SpecAV)                       *)

\* the positions in the delivered notifications of "layer seen" and of
\* "layer gone" for a layer
AVSeenAt(l) ==
    {i \in 1 .. Len(avLog.delivered) :
        /\ avLog.delivered[i].cb = "OnAvailableLayersChanged"
        /\ avLog.delivered[i].layer = l
        /\ avLog.delivered[i].status = "Active"}

AVGoneAt(l) ==
    {i \in 1 .. Len(avLog.delivered) :
        /\ avLog.delivered[i].cb = "OnAvailableLayersChanged"
        /\ avLog.delivered[i].layer = l
        /\ avLog.delivered[i].status = "Stopped"}

\* every "layer gone" of l comes after a "layer seen" of l with no other
\* "layer gone" of l in between
AVGoneAfterSeen(l) ==
    \A i \in AVGoneAt(l) :
        \E j \in AVSeenAt(l) :
            /\ j < i
            /\ \A k \in AVGoneAt(l) : ~(j < k /\ k < i)

\* every "layer gone" of l is for a layer that was available
AVGoneWasAvailable(l) ==
    \A i \in AVGoneAt(l) : avLog.delivered[i].had

\* C26: for each spatial layer, under any interleaving of the trackers'
\* status callbacks, a "layer gone" notification is never delivered before
\* the "layer seen" notification of the same availability period, and no
\* "layer gone" notification is delivered for a layer that was not
\* available.
C26_SeenBeforeGone ==
    \A l \in AVLayers : AVGoneAfterSeen(l) /\ AVGoneWasAvailable(l)

\* the first part of C26 alone
AVEveryGoneAfterSeen == \A l \in AVLayers : AVGoneAfterSeen(l)

\* the second part of C26 alone
AVEveryGoneWasAvailable == \A l \in AVLayers : AVGoneWasAvailable(l)

\* a layer was seen and gone, and seen and gone again
AVSeenGoneTwice ==
    \E l \in AVLayers :
        /\ Cardinality(AVSeenAt(l)) = 2
        /\ Cardinality(AVGoneAt(l)) = 2
        /\ AVGoneAfterSeen(l)
        /\ AVGoneWasAvailable(l)

\* the last call was an Update with a padding-only packet that is a
\* duplicate or out of order (gapSN <= 0) and for which an extender
\* proposed a restart
RSPaddingRestart ==
    /\ rsLast.op = "Update"
    /\ rsLast.pkt.payloadSize = 0
    /\ rsLast.resSN.ExtendedVal - rsLast.resSN.PreExtendedHighest <= 0
    /\ (rsLast.resSN.IsRestart \/ rsLast.resTS.IsRestart)

RSStartsRestored ==
    /\ rs.sequenceNumber.start = rsLast.pre.sequenceNumber.start
    /\ rs.timestamp.start = rsLast.pre.timestamp.start

RSCyclesRestored ==
    /\ rs.sequenceNumber.cycles = rsLast.pre.sequenceNumber.cycles
    /\ rs.timestamp.cycles = rsLast.pre.timestamp.cycles

RSCountersKept ==
    /\ rs.packetsLost = rsLast.pre.packetsLost
    /\ rs.packetsOutOfOrder = rsLast.pre.packetsOutOfOrder
    /\ rs.packetsPadding = rsLast.pre.packetsPadding
    /\ rs.packetsDuplicate = rsLast.pre.packetsDuplicate

\* the counters of a padding-only packet that Update went on to count as a
\* duplicate or as the arrival of a packet counted as lost
RSPaddingCounted ==
    /\ rsLast.recorded
    /\ rs.packetsOutOfOrder = rsLast.pre.packetsOutOfOrder
          + (IF rsLast.resSN.ExtendedVal # rsLast.resSN.PreExtendedHighest
               THEN 1 ELSE 0)
    /\ IF rsLast.flowState.IsDuplicate
         THEN /\ rs.packetsDuplicate = rsLast.pre.packetsDuplicate + 1
              /\ rs.packetsLost = rsLast.pre.packetsLost
              /\ rs.packetsPadding = rsLast.pre.packetsPadding
         ELSE /\ rs.packetsDuplicate = rsLast.pre.packetsDuplicate
              /\ rs.packetsLost = rsLast.pre.packetsLost - 1
              /\ rs.packetsPadding = rsLast.pre.packetsPadding + 1

RSRestartKeepsStarts == RSPaddingRestart => RSStartsRestored

\* only the timestamp extender proposed the restart, and the call went on
\* to count the packet
RSTimestampRestartCounted ==
    /\ RSPaddingRestart
    /\ ~rsLast.resSN.IsRestart
    /\ rs.packetsOutOfOrder = rsLast.pre.packetsOutOfOrder + 1

----------------------------------------------------------------------------
(* Claims on the ring of the sequencer (SpecRing)                          *)

\* the place in sqPushed of the last stored push of t, 0 when there is none
SeqLastPushOf(t) ==
    LET is == {i \in 1 .. Len(sqPushed) : sqPushed[i] = t}
    IN IF is = {} THEN 0 ELSE CHOOSE i \in is : \A j \in is : j <= i

\* t was stored by push and its slot was not set to nil since
SeqStored(t) == SeqLastPushOf(t) # 0 /\ t \notin sqRefused

\* headSN - t < N
SeqInWindow(t) == SubMod(sq.headSN, t, U16Range) < sq.max

\* fewer than maxTrack pushes were stored since the push of t
SeqMetaKept(t) ==
    Len(sqPushed) - SeqLastPushOf(t) < Cardinality(DOMAIN sq.meta)

\* pm carries what was pushed for t
SeqIsPushedFor(pm, t) ==
    /\ pm.targetSeqNo = t
    /\ pm.sourceSeqNo = SeqSourceSN(t)
    /\ pm.timestamp = 10 * t
    /\ pm.marker = (t % 2 = 1)
    /\ pm.layer = SeqLayer(t)

\* the slot (step - (headSN - t) - 1) mod N points to what was pushed for t
SeqFoundAtSlot(t) ==
    LET m == sq.seq[wrap(sq, sq.step - SubMod(sq.headSN, t, U16Range) - 1)]
    IN m # -1 /\ SeqIsPushedFor(sq.meta[m], t)

\* the last call was a push that getSlot refuses: the target sequence number
\* is the head, or is N or more behind it
SeqLastPushRefused ==
    /\ sqLast.op = "push"
    /\ sqLast.pre.init
    /\ LET t == sqLast.seqNo[1]
       IN \/ t = sqLast.pre.headSN
          \/ /\ SubMod(t, sqLast.pre.headSN, U16Range) > U16Range \div 2
             /\ SubMod(sqLast.pre.headSN, t, U16Range) >= sqLast.pre.max

\* a refused push leaves the sequencer as it was
SeqRefusedPushDropped == SeqLastPushRefused => sq = sqLast.pre

\* the last call was getPacketsMeta of the one sequence number t, returned
\* fewer than maxAck times before (every call of SpecRing comes later than
\* the pacing threshold after the call before)
SeqLastGetPermitted(t) ==
    /\ sqLast.op = "getPacketsMeta"
    /\ sqLast.seqNo = <<t>>
    /\ t \in DOMAIN sqReturned
    /\ sqReturned[t] - Len(sqLast.meta) < maxAck

\* getPacketsMeta returned exactly what was pushed for t
SeqLastGetReturned(t) ==
    /\ Len(sqLast.meta) = 1
    /\ SeqIsPushedFor(sqLast.meta[1], t)

\* C30 as stated: a push of the head or of a sequence number N or more behind
\* it is dropped and leaves the ring; every target sequence number stored by
\* push and not set to nil since, less than N behind the head, is found at
\* slot (step - (headSN - t) - 1) mod N, and getPacketsMeta, pacing
\* permitting, returns what was pushed for it
C30_Original ==
    /\ SeqRefusedPushDropped
    /\ \A t \in RingSNs :
          SeqStored(t) /\ SeqInWindow(t) =>
              /\ SeqFoundAtSlot(t)
              /\ SeqLastGetPermitted(t) => SeqLastGetReturned(t)

\* C30, amended: the same for the target sequence numbers whose packetMeta
\* is still in the arena of maxTrack elements, that is with fewer than
\* maxTrack pushes stored since; for the others the slot points to the
\* packetMeta of a later push and getPacketsMeta returns nothing
C30_Amended ==
    /\ SeqRefusedPushDropped
    /\ \A t \in RingSNs :
          SeqStored(t) /\ SeqInWindow(t) =>
              IF SeqMetaKept(t)
                THEN /\ SeqFoundAtSlot(t)
                     /\ SeqLastGetPermitted(t) => SeqLastGetReturned(t)
                ELSE /\ lookupMeta(sq, t) = -1
                     /\ SeqLastGetPermitted(t) => sqLast.meta = <<>>

\* 65535 was pushed before the head 1 out of order, padding came in between,
\* and getPacketsMeta returned it
C30_Witness ==
    /\ sq.headSN = 1
    /\ sqPushed = <<1, 65535>>
    /\ 0 \in sqRefused
    /\ SeqStored(65535) /\ SeqInWindow(65535) /\ SeqMetaKept(65535)
    /\ SeqLastGetPermitted(65535)
    /\ SeqLastGetReturned(65535)

\* three pushes in a row: the packetMeta of the first is overwritten while
\* its sequence number is less than N behind the head
SeqArenaOverwritten ==
    /\ sqPushed = <<65535, 0, 1>>
    /\ SeqStored(65535) /\ SeqInWindow(65535)
    /\ ~SeqMetaKept(65535)

\* a push N or more behind the head was dropped
SeqOldPushDropped ==
    /\ SeqLastPushRefused
    /\ sqLast.seqNo[1] # sqLast.pre.headSN
    /\ sq = sqLast.pre

----------------------------------------------------------------------------
(* Claims on SetMaxExpectedSpatialLayer (SpecST)                           *)

STLastSetMaxExpected == stLast.op = "SetMaxExpectedSpatialLayer"

\* the layers above the previous expected layer, up to the new one, that
\* had a tracker and were not available when the call was made
STResetExpected ==
    {l \in SpatialLayers :
        /\ stLast.pre.maxExpectedLayer < l /\ l <= stLast.layer
        /\ stLast.pre.trackers[l]
        /\ l \notin SeqToSet(stLast.pre.availableLayers)}

\* C31: SetMaxExpectedSpatialLayer(layer) stores layer and returns the
\* previous value; raising it resets exactly the trackers of the layers in
\* (previous, layer] that exist and are not available, and lowering it or
\* keeping it resets none; nothing else of the manager changes
C31_SetMaxExpected ==
    STLastSetMaxExpected =>
        /\ st = [stLast.pre EXCEPT !.maxExpectedLayer = stLast.layer]
        /\ stLast.prev = stLast.pre.maxExpectedLayer
        /\ stLast.reset = STResetExpected
        /\ stLast.layer <= stLast.prev => stLast.reset = {}

\* the expected layer was raised over an available layer and two layers
\* that have a tracker and are not available
C31_Witness ==
    /\ STLastSetMaxExpected
    /\ stLast.prev = InvalidLayerSpatial /\ stLast.layer = 2
    /\ stLast.pre.availableLayers = <<1>>
    /\ stLast.reset = {0, 2}

\* the expected layer was lowered below layers that have a tracker
STLoweredResetsNone ==
    /\ STLastSetMaxExpected
    /\ stLast.layer < stLast.prev
    /\ \E l \in SpatialLayers : l > stLast.layer /\ stLast.pre.trackers[l]
    /\ stLast.reset = {}

----------------------------------------------------------------------------
(* Claims on the sender reports of RTPStats (SpecRSR)                      *)

\* the last call handed a report to an initialized engine
RSRLastReport ==
    /\ rsLast.op = "SetRtcpSenderReportData"
    /\ rsLast.srData # <<>>
    /\ rsLast.pre.initialized

\* the report of the last call is older, by its NTP time, than the newest stored
RSRLastAnachronous ==
    /\ RSRLastReport
    /\ rsLast.pre.srNewest # <<>>
    /\ rsLast.srData[1].NTPTimestamp < rsLast.pre.srNewest[1].NTPTimestamp

RSRLastAccepted == RSRLastReport /\ ~RSRLastAnachronous

\* the incoming report with its RTP timestamp extended: the report itself
\* when it is the first, else the previous newest's extended timestamp plus
\* the distance when the timestamp went forward by less than half the range,
\* and the previous newest's cycles when it did not
RSRExtended ==
    LET sr == rsLast.srData[1]
        old == rsLast.pre.srNewest
        fwd == SubMod(sr.RTPTimestamp, old[1].RTPTimestamp, TSRange)
    IN IF old = <<>> THEN sr.RTPTimestamp
       ELSE IF fwd < TSRange \div 2 THEN old[1].RTPTimestampExt + fwd
       ELSE (old[1].RTPTimestampExt - (old[1].RTPTimestampExt % TSRange))
              + sr.RTPTimestamp

\* the extended RTP timestamp of the accepted report is below the previous
\* newest's
RSRLastRegressed ==
    /\ RSRLastAccepted
    /\ rsLast.pre.srNewest # <<>>
    /\ rs.srNewest[1].RTPTimestampExt < rsLast.pre.srNewest[1].RTPTimestampExt

\* C32: SetRtcpSenderReportData rejects a report whose NTP time is older than
\* the newest stored and leaves srFirst, srNewest and firstTime; an accepted
\* report becomes srNewest with an NTP time not below the previous one and
\* its RTP timestamp extended against the previous newest; when the extended
\* timestamp is below the previous newest's, srFirst becomes the incoming
\* report as well, and otherwise srFirst is kept once set
C32_SenderReports ==
    /\ RSRLastAnachronous =>
          /\ rs.srFirst = rsLast.pre.srFirst
          /\ rs.srNewest = rsLast.pre.srNewest
          /\ rs.firstTime = rsLast.pre.firstTime
    /\ RSRLastAccepted =>
          /\ rs.srNewest # <<>>
          /\ rs.srNewest[1].NTPTimestamp = rsLast.srData[1].NTPTimestamp
          /\ rs.srNewest[1].RTPTimestamp = rsLast.srData[1].RTPTimestamp
          /\ rs.srNewest[1].RTPTimestampExt = RSRExtended
          /\ rsLast.pre.srNewest # <<>> =>
                rs.srNewest[1].NTPTimestamp >= rsLast.pre.srNewest[1].NTPTimestamp
          /\ rs.srFirst = IF RSRLastRegressed \/ rsLast.pre.srFirst = <<>>
                            THEN rs.srNewest ELSE rsLast.pre.srFirst

\* a report went back in RTP time after a report that had wrapped: srFirst
\* and srNewest are the incoming report, above the first cycle
C32_Witness ==
    /\ RSRLastRegressed
    /\ rs.srFirst = rs.srNewest
    /\ rs.srFirst # rsLast.pre.srFirst
    /\ rs.srNewest[1].RTPTimestamp = rsLast.srData[1].RTPTimestamp
    /\ rs.srNewest[1].RTPTimestampExt >= TSRange

\* the newest NTP time stored never decreases
RSRNtpNeverDecreases ==
    [][rs.srNewest # <<>> =>
          /\ rs'.srNewest # <<>>
          /\ rs'.srNewest[1].NTPTimestamp >= rs.srNewest[1].NTPTimestamp]_vars

\* an older report was rejected
RSRRejected == RSRLastAnachronous /\ rs = rsLast.pre

\* an accepted report wrapped the 32-bit timestamp
RSRWrapped ==
    /\ RSRLastAccepted
    /\ rsLast.pre.srNewest # <<>>
    /\ rs.srNewest[1].RTPTimestamp < rsLast.pre.srNewest[1].RTPTimestamp
    /\ rs.srNewest[1].RTPTimestampExt > rsLast.pre.srNewest[1].RTPTimestampExt

----------------------------------------------------------------------------
(* Claims on the deltas of RTPStats (SpecDelta)                            *)

\* the deltas DeltaInfo returned for one snapshot id, in order
DLDeltasOf(id) == SelectSeq(dlLog.deltas, LAMBDA d : d.id = id /\ d.ok)

\* the extended sequence numbers a delta reports on: none when it is nil
DLInterval(d) == IF d.info.nil THEN {} ELSE d.extStart..(d.extEnd - 1)

\* successive deltas of one id: each starts where the one before it ended
DLRotated(id) ==
    LET ds == DLDeltasOf(id)
    IN \A i \in 1..Len(ds) :
          /\ ds[i].extStart <= ds[i].extEnd
          /\ i > 1 => ds[i].extStart = ds[i - 1].extEnd

\* the delta whose getAndResetSnapshot has returned and whose walk has not
\* yet run starts where the last returned delta of its id ended
DLInFlightRotated ==
    dl.pc = "walk" /\ dl.ok =>
        LET ds == DLDeltasOf(dl.id)
        IN /\ dl.then.extStartSN <= dl.now.extStartSN
           /\ Len(ds) > 0 => dl.then.extStartSN = ds[Len(ds)].extEnd

\* every extended sequence number of from..(end of the last delta - 1) is
\* reported by exactly one delta of id
DLCovered(id, from) ==
    LET ds == DLDeltasOf(id)
    IN Len(ds) > 0 =>
          \A sn \in from..(ds[Len(ds)].extEnd - 1) :
              Cardinality({i \in 1..Len(ds) : sn \in DLInterval(ds[i])}) = 1

\* every extended sequence number from the first baseline of id to the end
\* of its last delta lies between the baselines of exactly one delta of id,
\* and is reported by it unless that delta is nil
DLCoveredFromFirst(id) ==
    LET ds == DLDeltasOf(id)
    IN Len(ds) > 0 =>
          \A sn \in {ds[i].extStart : i \in 1..Len(ds)}
                      \cup {ds[i].extEnd - 1 : i \in {j \in 1..Len(ds) :
                                                   ds[j].extEnd > ds[j].extStart}} :
              LET at == {i \in 1..Len(ds) :
                            ds[i].extStart <= sn /\ sn < ds[i].extEnd}
              IN sn < ds[Len(ds)].extEnd =>
                    /\ Cardinality(at) = 1
                    /\ \A i \in at : sn \in DLInterval(ds[i]) <=> ~ds[i].info.nil

DLCoveredFromStart ==
    \A i \in 1..Len(dlLog.ids) :
        LET ds == DLDeltasOf(dlLog.ids[i])
        IN Len(ds) > 0 => DLCovered(dlLog.ids[i], ds[Len(ds)].start)

DLIdsDistinct ==
    \A i, j \in 1..Len(dlLog.ids) : i # j => dlLog.ids[i] # dlLog.ids[j]

DLNilAboveLimit ==
    \A i \in 1..Len(dlLog.deltas) :
        LET d == dlLog.deltas[i]
        IN d.ok => (d.info.nil <=> d.extEnd - d.extStart > NumSequenceNumbers)

DLAllRotated == \A i \in 1..Len(dlLog.ids) : DLRotated(dlLog.ids[i])

\* C33, as stated: the deltas of one snapshot id are contiguous and do not
\* overlap, every extended sequence number from the start of the stream (as
\* it is when the last delta rotates the baseline) to the end of the last
\* delta is reported by exactly one delta, NewSnapshotId never returns an id
\* twice, and a delta of more than 65536 positions is nil.
C33_Original ==
    /\ DLAllRotated
    /\ DLInFlightRotated
    /\ DLCoveredFromStart
    /\ DLIdsDistinct
    /\ DLNilAboveLimit

\* C33, amended: the deltas of one snapshot id are contiguous and do not
\* overlap, also when Update runs between getAndResetSnapshot and the walk;
\* every extended sequence number from the first baseline of the id to the
\* end of its last delta lies between the baselines of exactly one delta,
\* which reports it unless it is nil; NewSnapshotId never returns an id
\* twice; a delta is nil exactly when its baselines are more than 65536
\* apart.  Sequence numbers that a restart puts before a baseline already
\* rotated, and those of a nil delta, are reported by no delta.
C33_Amended ==
    /\ DLAllRotated
    /\ DLInFlightRotated
    /\ \A i \in 1..Len(dlLog.ids) : DLCoveredFromFirst(dlLog.ids[i])
    /\ DLIdsDistinct
    /\ DLNilAboveLimit

\* a second DeltaInfo of an id has rotated the baseline after a first one
\* that reported packets, and a packet has arrived before its walk
C33_Witness ==
    /\ dl.pc = "walk" /\ dl.ok
    /\ Len(dlLog.ids) = 2
    /\ LET ds == DLDeltasOf(dl.id)
       IN /\ Len(ds) > 0
          /\ ~ds[Len(ds)].info.nil
          /\ ds[Len(ds)].extEnd > ds[Len(ds)].extStart
    /\ dl.now.extStartSN > dl.then.extStartSN
    /\ rsLast.op = "Update"
    /\ GetExtendedHighest(rs.sequenceNumber) + 1 > dl.now.extStartSN

\* a restart after the first delta puts the start of the stream before the
\* baseline: the sequence numbers before it are in no delta
DLRestartUncovered ==
    \E i \in 1..Len(dlLog.ids) :
        LET ds == DLDeltasOf(dlLog.ids[i])
        IN /\ Len(ds) = 2
           /\ ~ds[1].info.nil /\ ~ds[2].info.nil
           /\ ds[2].start < ds[1].extStart

\* a nil delta has rotated the baseline: its interval is in no delta
DLNilRotated ==
    \E i \in 1..Len(dlLog.ids) :
        LET ds == DLDeltasOf(dlLog.ids[i])
        IN /\ Len(ds) = 2
           /\ ds[1].info.nil
           /\ ds[2].extStart = ds[1].extEnd

----------------------------------------------------------------------------
(* Claims on the gap histogram of RTPStats (SpecGap)                       *)

Min(a, b) == IF a < b THEN a ELSE b

\* the exported histogram h with one more count under key k
GapCounted(h, k) ==
    [b \in DOMAIN h \cup {k} |-> IF b = k THEN (IF k \in DOMAIN h THEN h[k] ELSE 0) + 1
                                           ELSE h[b]]

\* the last Update was in order: its sequence number is above the highest
RSLastInOrder == RSLastUpdateLive /\ rsLast.recorded /\ RSLastGapSN > 0

\* the last Update counted its gap under key lim at most
GapLastCounted(lim) ==
    /\ RSLastInOrder /\ RSLastGapSN > 1 =>
          ToProtoGapHistogram(rs)
             = GapCounted(ToProtoGapHistogram(rsLast.pre), Min(RSLastGapSN - 1, lim))
    /\ rsLast.op = "Update" /\ ~(RSLastInOrder /\ RSLastGapSN > 1) =>
          rs.gapHistogram = rsLast.pre.gapHistogram

\* the exported key of a count is its index in r.gapHistogram plus one
GapExportedByIndex ==
    /\ DOMAIN ToProtoGapHistogram(rs) = {i + 1 : i \in DOMAIN rs.gapHistogram}
    /\ \A i \in DOMAIN rs.gapHistogram :
          /\ i \in 0..(GapHistogramNumBins - 1)
          /\ ToProtoGapHistogram(rs)[i + 1] = rs.gapHistogram[i]

\* C34, as stated: an in-order Update with gap g > 1 adds one to exactly one
\* bin of the gap histogram, bin min(g - 1, 100), no bin changes when
\* g <= 1, and ToProto exports each count under that bin number.
C34_Original == GapLastCounted(GapHistogramNumBins - 1)

\* C34, amended: an in-order Update with gap g > 1 adds one to exactly one
\* bin of the gap histogram, the one ToProto exports under key
\* min(g - 1, 101) (index min(g - 1, 101) - 1 of the 101 bins), and no bin
\* changes when g <= 1 or the packet is out of order.
C34_Amended == GapLastCounted(GapHistogramNumBins) /\ GapExportedByIndex

\* the last Update was in order with 102 sequence numbers missing before it:
\* counted in the last bin, exported under key 101
C34_Witness ==
    /\ RSLastInOrder
    /\ RSLastGapSN - 1 > GapHistogramNumBins
    /\ GapHistogramNumBins \in DOMAIN ToProtoGapHistogram(rs)
    /\ GapHistogramNumBins - 1 \notin DOMAIN ToProtoGapHistogram(rs)

\* a gap of 102 (101 missing) is exported under key 101
GapOf102UnderKey101 ==
    /\ RSLastInOrder
    /\ RSLastGapSN = GapHistogramNumBins + 1
    /\ DOMAIN ToProtoGapHistogram(rs) = {GapHistogramNumBins}

----------------------------------------------------------------------------
(* Claims on the wake-up of the consumer of OpsQueue (SpecOQLive)          *)

OQAccepted(k) == \E i \in 1 .. Len(oqLog.accepted) : oqLog.accepted[i] = k

OQFinished(k) == \E i \in 1 .. Len(oqLog.finished) : oqLog.finished[i] = k

\* C35: on a queue that is started and never stopped, every closure that
\* Enqueue has queued is executed eventually, under weak fairness of the
\* launch of the consumer and of its steps, for every interleaving of
\* Enqueue with the consumer.
C35_EveryClosureRuns ==
    \A k \in 1 .. MaxOQEnqueues :
        (OQAccepted(k) /\ oq.isStarted) ~> (OQFinished(k) \/ oq.isStopped)

\* every closure has run on a queue that was not stopped, the consumer waits
\* on the wake channel, and the channel still holds the wake of an Enqueue
\* whose closure the drain loop has already run
C35_Witness ==
    /\ ~oq.isStopped
    /\ Len(oqLog.finished) = MaxOQEnqueues
    /\ oq.ops = <<>>
    /\ oq.wake = WakeCap
    /\ \E p \in OQProcs : oqProc[p].pc = "receive"

\* on a queue that is never started a closure waits for ever
OQRunsWithoutStart ==
    \A k \in 1 .. MaxOQEnqueues : OQAccepted(k) ~> (OQFinished(k) \/ oq.isStopped)

----------------------------------------------------------------------------
(* Claims on the duplicates of RTPStats.Update (Spec)                      *)

\* the last Update counted its packet as a duplicate
RSLastCountedDuplicate ==
    /\ rsLast.op = "Update"
    /\ \/ rsLast.flowState.IsDuplicate
       \/ rs.packetsDuplicate # rsLast.pre.packetsDuplicate

\* C36: Update returns IsDuplicate and adds to packetsDuplicate only for a
\* sequence number whose packet was received before; a packet never received
\* that is SnInfoSize or more behind the highest is not a duplicate.
C36_DuplicateOnlyIfReceived ==
    RSLastCountedDuplicate => rsLast.pkt.idx \in rsLast.seen

\* a packet never received, after the start of the stream and SnInfoSize or
\* more behind the highest, was counted as a duplicate
RSLateCountedDuplicate ==
    /\ RSLastCountedDuplicate
    /\ RSLastUpdateLive
    /\ rsLast.pkt.idx \notin rsLast.seen
    /\ rsLast.pkt.idx > LowestIdx(rsLast.seen)
    /\ HighestIdx(rsLast.seen) - rsLast.pkt.idx >= SnInfoSize
    /\ rsLast.flowState.IsDuplicate
    /\ rs.packetsDuplicate = rsLast.pre.packetsDuplicate + 1
    /\ rs.packetsLost = rsLast.pre.packetsLost

\* within the SnInfo window a packet never received is not a duplicate
RSDuplicateInWindowWasReceived ==
    (RSLastCountedDuplicate /\ RSLastUpdateLive /\ rsLast.seen # {}
        /\ rsLast.pkt.idx > LowestIdx(rsLast.seen)
        /\ HighestIdx(rsLast.seen) - rsLast.pkt.idx < SnInfoSize)
      => rsLast.pkt.idx \in rsLast.seen

----------------------------------------------------------------------------
(* Claims on the packetMeta arena of the sequencer (SpecMeta)              *)

\* pm is the packetMeta of the last packet stored for its target sequence
\* number
SeqIsLastStored(pm) ==
    LET n == SeqLastPushOf(pm.targetSeqNo)
        pkt == MetaPacket(pm.targetSeqNo, n)
    IN /\ n # 0
       /\ pm.sourceSeqNo = pkt.sourceSeqNo
       /\ pm.timestamp = pkt.timestamp
       /\ pm.marker = pkt.marker
       /\ pm.layer = pkt.layer

\* the metas returned are those of requested sequence numbers, in the order
\* of the request
RECURSIVE SeqAnswers(_, _)
SeqAnswers(meta, seqNo) ==
    IF meta = <<>> THEN TRUE
    ELSE IF seqNo = <<>> THEN FALSE
    ELSE IF Head(meta).targetSeqNo = Head(seqNo)
      THEN SeqAnswers(Tail(meta), Tail(seqNo))
      ELSE SeqAnswers(meta, Tail(seqNo))

\* C37: whatever the pushes, also after more than maxTrack of them have
\* reused the arena, every packetMeta getPacketsMeta returns has the target
\* sequence number of a request and the source sequence number, timestamp,
\* marker and layer of the last packet stored for that target; and the
\* lookup of any sequence number finds that packet or nothing.
C37_NoStaleMeta ==
    /\ sqLast.op = "getPacketsMeta" =>
          /\ SeqAnswers(sqLast.meta, sqLast.seqNo)
          /\ \A i \in 1 .. Len(sqLast.meta) : SeqIsLastStored(sqLast.meta[i])
    /\ \A t \in RingSNs :
          lookupMeta(sq, t) # -1 =>
              /\ sq.meta[lookupMeta(sq, t)].targetSeqNo = t
              /\ SeqIsLastStored(sq.meta[lookupMeta(sq, t)])

\* 0 was stored twice, the second time in the element of the arena that held
\* the packetMeta of an older sequence number, and getPacketsMeta returned
\* the second packet
C37_Witness ==
    /\ Len(sqPushed) > SeqMaxTrack
    /\ Cardinality({i \in 1 .. Len(sqPushed) : sqPushed[i] = 0}) = 2
    /\ sqLast.op = "getPacketsMeta"
    /\ sqLast.seqNo = <<0>>
    /\ Len(sqLast.meta) = 1
    /\ sqLast.meta[1].sourceSeqNo = MetaPacket(0, Len(sqPushed)).sourceSeqNo

\* the slot of a sequence number in the window points to the packetMeta of
\* another one: the lookup finds nothing
SeqSlotPointsElsewhere ==
    \E t \in RingSNs :
        /\ SeqStored(t) /\ SeqInWindow(t)
        /\ sq.seq[wrap(sq, sq.step - SubMod(sq.headSN, t, U16Range) - 1)] # -1
        /\ lookupMeta(sq, t) = -1

----------------------------------------------------------------------------
(* Claims on the symmetry of the layer offsets (SpecSR)                    *)

SRLayerPairs == {p \in SpatialLayers \X SpatialLayers : p[1] # p[2]}

SRBothSet(a, b) == st.layerOffsets[a][b] # 0 /\ st.layerOffsets[b][a] # 0

\* ts of layer b converted to the reference layer a, and the result, as a
\* timestamp of layer a, converted to the reference layer b
SRThereAndBack(ts, a, b) ==
    GetReferenceLayerRTPTimestamp(
        st, GetReferenceLayerRTPTimestamp(st, ts, b, a).ts, a, b)

\* C38, as stated: for every two layers whose offsets are both set the
\* offsets add up to 0 modulo the timestamp range, and on a track that is
\* not SVC a timestamp converted to the other layer and back is unchanged.
C38_Original ==
    \A p \in SRLayerPairs :
        SRBothSet(p[1], p[2]) =>
            /\ (st.layerOffsets[p[1]][p[2]] + st.layerOffsets[p[2]][p[1]]) % TSRange = 0
            /\ ~st.isSVC =>
                  \A ts \in SRTimestamps :
                      SRThereAndBack(ts, p[1], p[2]) = [ts |-> ts, err |-> "nil"]

\* C38, amended: the two offsets of a pair of layers are set together; they
\* add up to 0 modulo the timestamp range and the conversion there and back
\* returns the timestamp, unless the offset computed was 0: then 1 is stored
\* in both directions, the sum is 2 and the conversion there and back
\* returns the timestamp plus 2.
C38_Amended ==
    \A p \in SRLayerPairs :
        /\ st.layerOffsets[p[1]][p[2]] # 0 <=> st.layerOffsets[p[2]][p[1]] # 0
        /\ SRBothSet(p[1], p[2]) =>
              LET sum == (st.layerOffsets[p[1]][p[2]] + st.layerOffsets[p[2]][p[1]])
                            % TSRange
              IN /\ IF st.layerOffsets[p[1]][p[2]] = 1 /\ st.layerOffsets[p[2]][p[1]] = 1
                      THEN sum = 2 ELSE sum = 0
                 /\ ~st.isSVC =>
                       \A ts \in SRTimestamps :
                           SRThereAndBack(ts, p[1], p[2])
                               = [ts |-> (ts + sum) % TSRange, err |-> "nil"]

\* three layers have reports: the offsets of one pair are 1 and 1, those of
\* another pair add up to 0
C38_Witness ==
    /\ ~st.isSVC
    /\ \E p \in SRLayerPairs :
          st.layerOffsets[p[1]][p[2]] = 1 /\ st.layerOffsets[p[2]][p[1]] = 1
    /\ \E p \in SRLayerPairs :
          /\ st.layerOffsets[p[1]][p[2]] > 1
          /\ (st.layerOffsets[p[1]][p[2]] + st.layerOffsets[p[2]][p[1]]) % TSRange = 0

\* a conversion there and back that returns the timestamp plus 2
SRThereAndBackOff ==
    /\ ~st.isSVC
    /\ \E p \in SRLayerPairs :
          /\ SRBothSet(p[1], p[2])
          /\ SRThereAndBack(TSRange - 1, p[1], p[2]) = [ts |-> 1, err |-> "nil"]

----------------------------------------------------------------------------
(* Claims on Enqueue and Stop of OpsQueue (SpecOQ)                         *)

\* the closures whose Enqueue took oq.lock when isStopped was set
OQAfterStop == {k \in 1 .. oqLog.enqueues : ~OQAccepted(k)}

\* such a closure is not in the deque, is not held by the consumer, and has
\* not begun
OQAfterStopDropped ==
    \A k \in OQAfterStop :
        /\ \A i \in 1 .. Len(oq.ops) : oq.ops[i] # k
        /\ \A p \in OQProcs : oqProc[p].op # k
        /\ \A i \in 1 .. Len(oqLog.begun) : oqLog.begun[i] # k

\* a step that puts a value in the wake channel finds the channel open
OQSendsOnOpenWake == oq'.wake > oq.wake => oq.wakeClosed = 0

\* C39: for any interleaving of Enqueue and Stop, with the consumer running
\* or not, no value is sent on the wake channel once it is closed, and a
\* closure whose Enqueue takes the lock after Stop has set isStopped is
\* never in the deque and never executed.
C39_EnqueueAfterStop == []OQAfterStopDropped /\ [][OQSendsOnOpenWake]_vars

\* Stop came between two Enqueue calls, with the deque empty when the second
\* took the lock: the first closure has run, the second is dropped
C39_Witness ==
    /\ oq.isStopped
    /\ oqLog.accepted = <<1>>
    /\ oqLog.finished = <<1>>
    /\ oqLog.queuedAtStop = <<>>
    /\ 2 \in OQAfterStop
    /\ oq.ops = <<>>
    /\ oq.wakeClosed = 1

----------------------------------------------------------------------------
(* Claims on the maximum layer delivered to the listener (SpecAV)          *)

\* no status callback is between its call and its return
AVQuiet == \A l \in AVLayers : avTrk[l].pc = "idle"

\* the places in avLog.delivered of the calls of OnMaxAvailableLayerChanged
AVMaxAt ==
    {i \in 1 .. Len(avLog.delivered) :
        avLog.delivered[i].cb = "OnMaxAvailableLayerChanged"}

\* the layer of the last OnMaxAvailableLayerChanged is the maximum of
\* availableLayers, the invalid layer when there is none
AVLastMaxIsCurrent ==
    AVMaxAt # {} =>
        avLog.delivered[HighestIdx(AVMaxAt)].arg
            = LastOr(st.availableLayers, InvalidLayerSpatial)

\* C40: when every status callback that was called has returned, the layer
\* delivered by the last OnMaxAvailableLayerChanged is the maximum of
\* availableLayers (the invalid layer when it is empty), for every
\* interleaving of the callbacks and after RemoveAllTrackers.
C40_LastMaxDelivered == AVQuiet => AVLastMaxIsCurrent

\* two trackers were added and none removed, every callback has returned,
\* and the last maximum delivered is not the maximum of availableLayers:
\* the listener calls of two callbacks came in the other order than their
\* critical sections
AVMaxDeliveredOutOfOrder ==
    /\ AVQuiet
    /\ avLog.calls = 2
    /\ \A l \in AVLayers : st.trackers[l]
    /\ ~AVLastMaxIsCurrent

\* RemoveAllTrackers has emptied availableLayers and the listener was not
\* told: the last maximum delivered is a layer
AVMaxStaleAfterRemoveAll ==
    /\ AVQuiet
    /\ avLog.calls = 2
    /\ \A l \in AVLayers : ~st.trackers[l]
    /\ st.availableLayers = <<>>
    /\ AVMaxAt # {}
    /\ avLog.delivered[HighestIdx(AVMaxAt)].arg # InvalidLayerSpatial

====
